---- MODULE Spec2Model ----
(***************************************************************************)
(* Session bootstrap of agentsecrets: signup, login, logout and the        *)
(* workspace operations, over config.json, token.json and the key store.   *)
(* Cryptography is symbolic: a ciphertext is a term that records what was  *)
(* encrypted and under which key, and a decrypt operation succeeds exactly *)
(* when it is given the matching key material.                             *)
(***************************************************************************)
EXTENDS Integers, Sequences, FiniteSets, TLC

\* ---------------------------------------------------------------- bounds
\* longest workspace list of a login response
MaxWorkspaces == 2
\* identity keypairs that exist
NumKeypairs == 2
\* workspace keys that exist
NumWsKeys == 2
\* invocations of the tool that run at the same time
NumInvocations == 2

\* ------------------------------------------------------- program constants
KeySize == 32
NonceSize == 12
SaltSize == 32
argonKeyLen == 32
StatusOK == 200
StatusCreated == 201
StatusNoContent == 204
StatusUnauthorized == 401

\* ------------------------------------------------------------ byte strings
\* A byte string is a term [t, a, b, c, n]: t is its kind, n its length.
Bytes(t, a, b, c, n) == [t |-> t, a |-> a, b |-> b, c |-> c, n |-> n]
NoBytes == Bytes("nil", 0, 0, "", 0)
\* private key of keypair i, public key of keypair i (box.GenerateKey)
Sk(i) == Bytes("sk", i, 0, "", KeySize)
Pk(i) == Bytes("pk", i, 0, "", KeySize)
\* a public key of the wrong length, as a server can return in public_key
ShortPk == Bytes("pk", 0, 0, "", 8)
\* the 32 random bytes of workspace key k
Wk(k) == Bytes("wk", k, 0, "", KeySize)
\* box.SealAnonymous(data = Wk(k)) to public key Pk(p): 48 bytes of overhead
Box(p, k) == Bytes("box", p, k, "", KeySize + 48)
\* nonce || AES-GCM(derive(password pw, salt s), Sk(i))
Epk(i, pw, s) == Bytes("epk", i, pw, s, NonceSize + KeySize + 16)
\* bytes of a plausible length that authenticate under no key
Junk == Bytes("junk", 0, 0, "", KeySize + 48)
\* fewer than NonceSize bytes
Short == Bytes("junk", 0, 0, "", 4)
\* a secret value: string number id of n bytes
Str(id, n) == Bytes("str", id, 0, "", n)
\* the 12 random bytes of nonce id
Nonce(id) == Bytes("nonce", 0, 0, id, NonceSize)
\* AES-GCM(Wk(k), nonce id, secret value v): the value and a 16-byte tag
SecretCt(k, v, id) == Bytes("sec", k, v.a, id, v.n + 16)
\* raw with one bit changed: as long as raw, authenticates under no key
FlipBit(raw) == [raw EXCEPT !.t = "junk"]
\* the first n bytes of raw
Truncate(raw, n) == [raw EXCEPT !.t = "junk", !.n = n]

KeyIds == 1..NumKeypairs
WsKeyIds == 1..NumWsKeys
Emails == {"a@x", "b@x"}
Passwords == {1, 2}
\* hex strings: "" is the empty string, "zz" is not hex
Salts == {"s1", "s2"}
WsIds == {"w1", "w2"}

\* ------------------------------------------------------------ wire strings
\* A string that carries bytes: base64 text of raw, text that is not
\* base64, or the empty string.
B64(raw) == [enc |-> "b64", raw |-> raw]
BadB64 == [enc |-> "bad", raw |-> NoBytes]
EmptyStr == [enc |-> "empty", raw |-> NoBytes]

\* What a call gives back: a value, an error with its message, or a panic
\* that unwinds the goroutine and ends the process.
Ok(v) == [ok |-> TRUE, val |-> v, msg |-> "", panic |-> FALSE]
Failed(msg) == [ok |-> FALSE, val |-> NoBytes, msg |-> msg, panic |-> FALSE]
Panic(msg) == [ok |-> FALSE, val |-> NoBytes, msg |-> msg, panic |-> TRUE]
Err == Failed("error")

\* base64.StdEncoding.DecodeString: "" decodes to zero bytes without error
B64Decode(s) ==
  IF s.enc = "b64" THEN Ok(s.raw)
  ELSE IF s.enc = "empty" THEN Ok(Bytes("junk", 0, 0, "", 0))
  ELSE Err

\* hex.DecodeString of a salt
HexValid(saltHex) == saltHex \in Salts \cup {""}

\* ------------------------------------------------------------------ crypto
\* a derivation that returns half the bytes
DeriveKeyFromPasswordShort(password, saltHex) ==
  IF HexValid(saltHex) THEN [ok |-> TRUE, pw |-> password, salt |-> saltHex, n |-> 16]
  ELSE [ok |-> FALSE, pw |-> 0, salt |-> "", n |-> 0]

\* argon2.IDKey(password, salt): the derived key is the pair it came from,
\* argonKeyLen bytes long. The function reads nothing but its two
\* arguments: no random source, no clock, no stored state.
DeriveKeyFromPassword(password, saltHex) ==
  IF HexValid(saltHex)
  THEN [ok |-> TRUE, pw |-> password, salt |-> saltHex, n |-> argonKeyLen]
  ELSE [ok |-> FALSE, pw |-> 0, salt |-> "", n |-> 0]

\* the bytes of a derived key
KeyBytes(key) == Bytes("dk", key.pw, 0, key.salt, key.n)

\* an encryption under a key derived without the salt it returns
EncryptPrivateKeyUnsalted(privateKey, password, salt) ==
  [ciphertextB64 |-> B64(Epk(privateKey.a, password, "")), saltHex |-> salt]

\* EncryptPrivateKey with the salt the random source produced
EncryptPrivateKey(privateKey, password, salt) ==
  LET derivedKey == DeriveKeyFromPassword(password, salt)
  IN  [ciphertextB64 |-> B64(Epk(privateKey.a, derivedKey.pw, derivedKey.salt)),
       saltHex |-> salt]

\* a decryption that does not depend on the password
DecryptPrivateKeyAnyPassword(encryptedB64, password, saltHex) ==
  LET dec == B64Decode(encryptedB64)
  IN  IF dec.ok /\ dec.val.t = "epk" THEN Ok(Sk(dec.val.a))
      ELSE Failed("failed to decrypt private key (wrong password?)")

\* DecryptPrivateKey(encryptedB64, password, saltHex)
DecryptPrivateKey(encryptedB64, password, saltHex) ==
  LET dec == B64Decode(encryptedB64)
      key == DeriveKeyFromPassword(password, saltHex)
      ciphertext == dec.val
  IN  IF ~dec.ok THEN Failed("failed to decode encrypted private key")
      ELSE IF ~key.ok THEN Failed("invalid salt hex")
      ELSE IF ciphertext.n < NonceSize THEN Failed("ciphertext too short")
      ELSE IF ciphertext.t = "epk" /\ ciphertext.b = key.pw /\ ciphertext.c = key.salt
           THEN Ok(Sk(ciphertext.a))
      ELSE Failed("failed to decrypt private key (wrong password?)")

\* EncryptForUser(recipientPublicKey, data): data is a workspace key
EncryptForUser(recipientPublicKey, data) ==
  IF recipientPublicKey.n # KeySize THEN Failed("invalid public key size")
  ELSE IF recipientPublicKey.t = "pk" /\ data.t = "wk"
       THEN Ok(Box(recipientPublicKey.a, data.a))
  ELSE Ok(Junk)

\* an opening that takes its two keys in the other order
DecryptFromUserSwapped(privateKey, publicKey, encrypted) ==
  IF /\ encrypted.t = "box"
     /\ publicKey.t = "sk" /\ publicKey.a = encrypted.a
     /\ privateKey.t = "pk" /\ privateKey.a = encrypted.a
  THEN Ok(Wk(encrypted.b))
  ELSE Failed("failed to decrypt: authentication failed")

\* DecryptFromUser(privateKey, publicKey, encrypted): box.OpenAnonymous
\* derives the nonce from publicKey and the shared key from privateKey, so
\* it opens a box only with both halves of the recipient's keypair.
DecryptFromUser(privateKey, publicKey, encrypted) ==
  IF privateKey.n # KeySize \/ publicKey.n # KeySize THEN Failed("invalid key size")
  ELSE IF /\ encrypted.t = "box"
          /\ privateKey.t = "sk" /\ privateKey.a = encrypted.a
          /\ publicKey.t = "pk" /\ publicKey.a = encrypted.a
       THEN Ok(Wk(encrypted.b))
  ELSE Failed("failed to decrypt: authentication failed")

\* key lengths aes.NewCipher accepts: AES-128, AES-192, AES-256
AESKeySizes == {16, 24, KeySize}

\* an encryption that returns another nonce than the one it sealed with
EncryptSecretOtherNonce(plaintext, workspaceKey, nonce) ==
  [err |-> FALSE,
   ciphertextB64 |-> B64(SecretCt(workspaceKey.a, plaintext, nonce)),
   nonceB64 |-> B64(Nonce("fresh"))]

\* EncryptSecret(plaintext, workspaceKey) with the nonce the random source
\* produced
EncryptSecret(plaintext, workspaceKey, nonce) ==
  IF workspaceKey.n \notin AESKeySizes
  THEN [err |-> TRUE, ciphertextB64 |-> EmptyStr, nonceB64 |-> EmptyStr]
  ELSE [err |-> FALSE,
        ciphertextB64 |-> B64(SecretCt(workspaceKey.a, plaintext, nonce)),
        nonceB64 |-> B64(Nonce(nonce))]

\* an opening that does not authenticate the nonce
OpenAnyNonce(workspaceKey, nonce, ciphertext) ==
  IF ciphertext.t = "sec" /\ workspaceKey = Wk(ciphertext.a)
  THEN Ok(Str(ciphertext.b, ciphertext.n - 16))
  ELSE Failed("cipher: message authentication failed")

\* cipher.AEAD.Open of AES-GCM: panics on a nonce that is not NonceSize
\* bytes long, otherwise opens the ciphertext or reports an error
Open(workspaceKey, nonce, ciphertext) ==
  IF nonce.n # NonceSize THEN Panic("crypto/cipher: incorrect nonce length given to GCM")
  ELSE IF /\ ciphertext.t = "sec" /\ workspaceKey = Wk(ciphertext.a)
          /\ nonce = Nonce(ciphertext.c)
       THEN Ok(Str(ciphertext.b, ciphertext.n - 16))
  ELSE Failed("cipher: message authentication failed")

\* DecryptSecret(ciphertextB64, nonceB64, workspaceKey)
DecryptSecret(ciphertextB64, nonceB64, workspaceKey) ==
  LET ciphertext == B64Decode(ciphertextB64)
      nonce == B64Decode(nonceB64)
      plaintext == Open(workspaceKey, nonce.val, ciphertext.val)
  IN  IF ~ciphertext.ok THEN Failed("failed to decode ciphertext")
      ELSE IF ~nonce.ok THEN Failed("failed to decode nonce")
      ELSE IF workspaceKey.n \notin AESKeySizes THEN Failed("failed to create cipher")
      ELSE IF plaintext.panic THEN plaintext
      ELSE IF ~plaintext.ok THEN Failed("failed to decrypt")
      ELSE plaintext

\* ------------------------------------------------------------------- state
VARIABLES
  configFile,      \* ~/.agentsecrets/config.json as a GlobalConfig
  tokenFile,       \* ~/.agentsecrets/token.json as a TokenConfig
  keyring,         \* the key store: email -> stored private and public key
  useFileBackend,  \* keyring.useFileBackend, fixed when the process starts
  last,            \* the operation that ran last: inputs, requests, outcome
  serverKnows,     \* history: every term the remote service sent or received
  inflight,        \* the load-modify-save each concurrent invocation is in
  trial            \* the crypto call made last: what was sealed, the arguments, the result

vars == <<configFile, tokenFile, keyring, useFileBackend, last, serverKnows, inflight, trial>>

\* ---------------------------------------------------------------- config.go
EmptyCache == [i \in {} |-> 0]
\* &GlobalConfig{} and &TokenConfig{}
EmptyGlobalConfig == [Email |-> "", SelectedWorkspaceID |-> "", Workspaces |-> EmptyCache]
EmptyTokenConfig == [AccessToken |-> "", RefreshToken |-> "", ExpiresAt |-> ""]

WorkspaceCacheEntry(name, key, role, type) ==
  [Name |-> name, Key |-> key, Role |-> role, Type |-> type]

\* m[k] = v on a Go map
MapPut(m, k, v) == [x \in (DOMAIN m) \cup {k} |-> IF x = k THEN v ELSE m[x]]

\* a SetEmail that writes nothing
SetEmailNone(cfg, email, written) == [err |-> ~written, cfg |-> cfg]

\* Every writer below is load, modify, save; the load reads the file the
\* last save wrote, and written tells whether the os.WriteFile of the save
\* succeeds. A failed write leaves the file as it was.
SetEmail(cfg, email, written) ==
  IF written THEN [err |-> FALSE, cfg |-> [cfg EXCEPT !.Email = email]]
  ELSE [err |-> TRUE, cfg |-> cfg]

StoreTokens(tok, accessToken, refreshToken, expiresAt, written) ==
  IF written
  THEN [err |-> FALSE, tok |-> [AccessToken |-> accessToken,
                                RefreshToken |-> refreshToken,
                                ExpiresAt |-> expiresAt]]
  ELSE [err |-> TRUE, tok |-> tok]

SetSelectedWorkspaceID(cfg, id, written) ==
  IF written THEN [err |-> FALSE, cfg |-> [cfg EXCEPT !.SelectedWorkspaceID = id]]
  ELSE [err |-> TRUE, cfg |-> cfg]

StoreWorkspaceCache(cfg, workspaces, written) ==
  IF written THEN [err |-> FALSE, cfg |-> [cfg EXCEPT !.Workspaces = workspaces]]
  ELSE [err |-> TRUE, cfg |-> cfg]

GetWorkspaceKey(cfg, workspaceID) ==
  IF workspaceID \notin DOMAIN cfg.Workspaces THEN Err
  ELSE IF cfg.Workspaces[workspaceID].Key.enc = "empty" THEN Err
  ELSE B64Decode(cfg.Workspaces[workspaceID].Key)

IsAuthenticated(cfg, tok) == tok.AccessToken # "" /\ cfg.Email # ""

\* a reset that clears the email and the tokens and keeps the cache
ClearSessionKeepCache(cfg, tok, configWritten, tokenWritten) ==
  IF ~configWritten THEN [err |-> TRUE, cfg |-> cfg, tok |-> tok]
  ELSE IF ~tokenWritten
       THEN [err |-> TRUE, cfg |-> [cfg EXCEPT !.Email = ""], tok |-> tok]
  ELSE [err |-> FALSE, cfg |-> [cfg EXCEPT !.Email = ""], tok |-> EmptyTokenConfig]

\* ClearSession: config.json is reset first, token.json second; an error of
\* the first write returns before the second.
ClearSession(cfg, tok, configWritten, tokenWritten) ==
  IF ~configWritten THEN [err |-> TRUE, cfg |-> cfg, tok |-> tok]
  ELSE IF ~tokenWritten THEN [err |-> TRUE, cfg |-> EmptyGlobalConfig, tok |-> tok]
  ELSE [err |-> FALSE, cfg |-> EmptyGlobalConfig, tok |-> EmptyTokenConfig]

\* --------------------------------------------------------------- keyring.go
NoKeyEntry == [Private |-> EmptyStr, Public |-> EmptyStr]
EmptyKeyring == [e \in Emails |-> NoKeyEntry]

\* StoreKeypair: with the file backend one fileSet writes both keys; with
\* the OS key store the private key is set first and the public key second.
StoreKeypair(kr, fileBackend, email, privateKey, publicKey, privSet, pubSet) ==
  LET privB64 == B64(privateKey)
      pubB64 == B64(publicKey)
  IN  IF fileBackend
      THEN IF privSet /\ pubSet
           THEN [err |-> FALSE,
                 kr |-> [kr EXCEPT ![email] = [Private |-> privB64, Public |-> pubB64]]]
           ELSE [err |-> TRUE, kr |-> kr]
      ELSE IF ~privSet THEN [err |-> TRUE, kr |-> kr]
      ELSE IF ~pubSet
           THEN [err |-> TRUE, kr |-> [kr EXCEPT ![email].Private = privB64]]
      ELSE [err |-> FALSE,
            kr |-> [kr EXCEPT ![email] = [Private |-> privB64, Public |-> pubB64]]]

GetPublicKey(kr, email) ==
  IF kr[email].Public.enc = "empty" THEN Err ELSE B64Decode(kr[email].Public)

GetPrivateKey(kr, email) ==
  IF kr[email].Private.enc = "empty" THEN Err ELSE B64Decode(kr[email].Private)

\* DeleteKeypair: the error of each delete is dropped; with the file backend
\* one fileDelete removes the whole entry or, when it fails, nothing.
DeleteKeypair(kr, fileBackend, email, privDeleted, pubDeleted) ==
  IF fileBackend
  THEN IF privDeleted /\ pubDeleted THEN [kr EXCEPT ![email] = NoKeyEntry] ELSE kr
  ELSE [kr EXCEPT ![email] =
          [Private |-> IF privDeleted THEN EmptyStr ELSE kr[email].Private,
           Public |-> IF pubDeleted THEN EmptyStr ELSE kr[email].Public]]

\* ---------------------------------------------------------------- client.go
publicEndpoints == {"auth.signup", "auth.login", "auth.refresh"}

\* the body fields a request can carry; absent fields are empty. The
\* first_name, last_name and terms_agreement of a signup carry no key
\* material and are left out.
EmptyBody ==
  [email |-> "", password |-> 0, public_key |-> EmptyStr,
   encrypted_private_key |-> EmptyStr, key_salt |-> "",
   encrypted_workspace_key |-> EmptyStr, name |-> "", role |-> ""]

\* a call that sets the header on every endpoint
CallAuthorizingAll(endpointKey, body, token) ==
  [endpoint |-> endpointKey, body |-> body,
   Authorization |-> IF token # "" THEN "Bearer " \o token ELSE ""]

\* Client.Call: the request that goes out. The Authorization header is set
\* for a non-public endpoint when getToken() returns a non-empty token; ""
\* is a request without the header. token is what the provider of root.go,
\* config.GetAccessToken, returns when Call asks it.
Call(endpointKey, body, token) ==
  [endpoint |-> endpointKey, body |-> body,
   Authorization |-> IF endpointKey \notin publicEndpoints /\ token # ""
                     THEN "Bearer " \o token ELSE ""]

\* ------------------------------------------------------------------ auth.go
\* coalesce returns the first non-empty string
coalesce(v1, v2) == IF v1 # "" THEN v1 ELSE v2

\* the loop with break in place of continue: the first entry that fails
\* ends it
RECURSIVE ResolveWorkspacesAbort(_, _, _, _, _)
ResolveWorkspacesAbort(workspaces, i, workspaceCache, privateKey, publicKey) ==
  IF i > Len(workspaces) THEN workspaceCache
  ELSE LET ws == workspaces[i]
           encryptedWsKey == B64Decode(ws.EncryptedWorkspaceKey)
           wsKey == DecryptFromUser(privateKey, publicKey, encryptedWsKey.val)
       IN  IF ~encryptedWsKey.ok \/ ~wsKey.ok THEN workspaceCache
           ELSE ResolveWorkspacesAbort(workspaces, i + 1,
                  MapPut(workspaceCache, ws.ID,
                         WorkspaceCacheEntry(ws.Name, B64(wsKey.val), ws.Role, ws.Type)),
                  privateKey, publicKey)

\* lines 159-179: the loop over loginResp.Data.Workspaces, from entry i on
RECURSIVE ResolveWorkspaces(_, _, _, _, _)
ResolveWorkspaces(workspaces, i, workspaceCache, privateKey, publicKey) ==
  IF i > Len(workspaces) THEN workspaceCache
  ELSE LET ws == workspaces[i]
           encryptedWsKey == B64Decode(ws.EncryptedWorkspaceKey)
           wsKey == DecryptFromUser(privateKey, publicKey, encryptedWsKey.val)
       IN  IF ~encryptedWsKey.ok
           THEN ResolveWorkspaces(workspaces, i + 1, workspaceCache, privateKey, publicKey)
           ELSE IF ~wsKey.ok
           THEN ResolveWorkspaces(workspaces, i + 1, workspaceCache, privateKey, publicKey)
           ELSE ResolveWorkspaces(workspaces, i + 1,
                  MapPut(workspaceCache, ws.ID,
                         WorkspaceCacheEntry(ws.Name, B64(wsKey.val), ws.Role, ws.Type)),
                  privateKey, publicKey)

\* the number of DecryptFromUser calls of that loop
UnwrapAttempts(workspaces) ==
  Cardinality({i \in 1..Len(workspaces) : B64Decode(workspaces[i].EncryptedWorkspaceKey).ok})

\* the first key a range over the map yields that satisfies want; order is
\* the iteration order of this range (Go randomises it), "" when none
RECURSIVE RangeFirst(_, _, _, _)
RangeFirst(order, i, cache, personalOnly) ==
  IF i > Len(order) THEN ""
  ELSE IF order[i] \in DOMAIN cache
          /\ (~personalOnly \/ cache[order[i]].Type = "personal")
       THEN order[i]
  ELSE RangeFirst(order, i + 1, cache, personalOnly)

\* the selection without the test of the type: the first entry of the range
SelectDefaultAny(cfg, workspaceCache, io, order1, order2) ==
  IF cfg.SelectedWorkspaceID # "" THEN cfg
  ELSE SetSelectedWorkspaceID(cfg, RangeFirst(order1, 1, workspaceCache, FALSE),
                              io.select1).cfg

\* the selection without the test of the workspace selected before
SelectDefaultAlways(cfg, workspaceCache, io, order1, order2) ==
  LET personal == RangeFirst(order1, 1, workspaceCache, TRUE)
      cfg1 == IF personal = "" THEN cfg
              ELSE SetSelectedWorkspaceID(cfg, personal, io.select1).cfg
      first == RangeFirst(order2, 1, workspaceCache, FALSE)
  IN  IF personal # "" THEN cfg1
      ELSE SetSelectedWorkspaceID(cfg1, first, io.select2).cfg

\* lines 186-201: default workspace selection once the cache is stored
SelectDefault(cfg, workspaceCache, io, order1, order2) ==
  IF cfg.SelectedWorkspaceID # "" THEN cfg
  ELSE LET personal == RangeFirst(order1, 1, workspaceCache, TRUE)
           cfg1 == IF personal = "" THEN cfg
                   ELSE SetSelectedWorkspaceID(cfg, personal, io.select1).cfg
           first == RangeFirst(order2, 1, workspaceCache, FALSE)
       IN  IF cfg1.SelectedWorkspaceID # "" THEN cfg1
           ELSE SetSelectedWorkspaceID(cfg1, first, io.select2).cfg

\* what PerformLogin returns and leaves behind; calls counts the API calls
\* of the operation: PerformLogin makes the one auth.login call of line 100
LoginOutcome(err, failedAt, cfg, tok, kr, unwraps) ==
  [err |-> err, failedAt |-> failedAt, cfg |-> cfg, tok |-> tok, kr |-> kr,
   unwraps |-> unwraps, calls |-> 1]

\* what PerformLogin hands to its caller: the one error value of its
\* signature. The two continue statements of the loop record nothing, so
\* the value carries no count of the entries that were skipped.
Returned(out) == [err |-> out.err, skipped |-> 0]

\* the session stored without the test of the error of StoreKeypair
StoreSessionUnchecked(cfg, tok, kr, fileBackend, email, privateKey, publicKey, resp, io, order1, order2) ==
  LET e == SetEmail(cfg, email, io.setEmail)
      t == StoreTokens(tok, coalesce(resp.AccessToken, resp.Access),
                       coalesce(resp.RefreshToken, resp.Refresh),
                       coalesce(resp.ExpiresAt, resp.DataExpiresAt), io.storeTokens)
      k == StoreKeypair(kr, fileBackend, email, privateKey, publicKey,
                        io.privSet, io.pubSet)
      workspaceCache == ResolveWorkspaces(resp.Workspaces, 1, EmptyCache,
                                          privateKey, publicKey)
      c == StoreWorkspaceCache(e.cfg, workspaceCache, io.storeCache)
  IN  IF e.err THEN LoginOutcome(TRUE, "SetEmail", cfg, tok, kr, 0)
      ELSE IF t.err THEN LoginOutcome(TRUE, "StoreTokens", e.cfg, tok, kr, 0)
      ELSE IF DOMAIN workspaceCache = {}
           THEN LoginOutcome(FALSE, "", e.cfg, t.tok, k.kr, UnwrapAttempts(resp.Workspaces))
      ELSE IF c.err
           THEN LoginOutcome(TRUE, "StoreWorkspaceCache", e.cfg, t.tok, k.kr,
                             UnwrapAttempts(resp.Workspaces))
      ELSE LoginOutcome(FALSE, "",
                        SelectDefault(c.cfg, workspaceCache, io, order1, order2),
                        t.tok, k.kr, UnwrapAttempts(resp.Workspaces))

\* lines 142-204: from "3. Store credentials" to the end
StoreSession(cfg, tok, kr, fileBackend, email, privateKey, publicKey, resp, io, order1, order2) ==
  LET e == SetEmail(cfg, email, io.setEmail)
      accessToken == coalesce(resp.AccessToken, resp.Access)
      refreshToken == coalesce(resp.RefreshToken, resp.Refresh)
      expiresAt == coalesce(resp.ExpiresAt, resp.DataExpiresAt)
      t == StoreTokens(tok, accessToken, refreshToken, expiresAt, io.storeTokens)
      k == StoreKeypair(kr, fileBackend, email, privateKey, publicKey,
                        io.privSet, io.pubSet)
      workspaceCache == ResolveWorkspaces(resp.Workspaces, 1, EmptyCache,
                                          privateKey, publicKey)
      unwraps == UnwrapAttempts(resp.Workspaces)
      c == StoreWorkspaceCache(e.cfg, workspaceCache, io.storeCache)
  IN  IF e.err THEN LoginOutcome(TRUE, "SetEmail", cfg, tok, kr, 0)
      ELSE IF t.err THEN LoginOutcome(TRUE, "StoreTokens", e.cfg, tok, kr, 0)
      ELSE IF k.err THEN LoginOutcome(TRUE, "StoreKeypair", e.cfg, t.tok, k.kr, 0)
      ELSE IF DOMAIN workspaceCache = {}
           THEN LoginOutcome(FALSE, "", e.cfg, t.tok, k.kr, unwraps)
      ELSE IF c.err
           THEN LoginOutcome(TRUE, "StoreWorkspaceCache", e.cfg, t.tok, k.kr, unwraps)
      ELSE LoginOutcome(FALSE, "",
                        SelectDefault(c.cfg, workspaceCache, io, order1, order2),
                        t.tok, k.kr, unwraps)

\* the contents of config.json when the cache is stored inside the loop,
\* after every entry
ConfigWritesIncremental(cfg, email, privateKey, publicKey, resp, io, order1, order2) ==
  LET e == SetEmail(cfg, email, io.setEmail)
      partial(i) == ResolveWorkspaces(SubSeq(resp.Workspaces, 1, i), 1, EmptyCache,
                                      privateKey, publicKey)
  IN  IF e.err THEN <<>>
      ELSE <<e.cfg>> \o [i \in 1..Len(resp.Workspaces) |->
                           StoreWorkspaceCache(e.cfg, partial(i), TRUE).cfg]

\* lines 142-201: the contents config.json takes during the call, one per
\* write of it that succeeds, in order: SetEmail, StoreWorkspaceCache, and
\* the write of the selected workspace (of the two at most one changes the
\* file: the second runs only when the first left the pointer empty)
ConfigWrites(cfg, email, privateKey, publicKey, resp, io, order1, order2) ==
  LET e == SetEmail(cfg, email, io.setEmail)
      workspaceCache == ResolveWorkspaces(resp.Workspaces, 1, EmptyCache,
                                          privateKey, publicKey)
      c == StoreWorkspaceCache(e.cfg, workspaceCache, io.storeCache)
  IN  IF e.err THEN <<>>
      ELSE IF ~io.storeTokens \/ ~io.privSet \/ ~io.pubSet THEN <<e.cfg>>
      ELSE IF DOMAIN workspaceCache = {} THEN <<e.cfg>>
      ELSE IF c.err THEN <<e.cfg>>
      ELSE <<e.cfg, c.cfg, SelectDefault(c.cfg, workspaceCache, io, order1, order2)>>

\* lines 119-140: the identity keypair of the login flow, from the response
ResolveIdentityKey(password, resp) ==
  LET encPrivKey == resp.EncryptedPrivateKey
      salt == resp.KeySalt
      pubKeyB64 == resp.PublicKey
      priv == DecryptPrivateKey(encPrivKey, password, salt)
      pub == B64Decode(pubKeyB64)
  IN  IF encPrivKey.enc = "empty" \/ salt = "" \/ pubKeyB64.enc = "empty"
      THEN [ok |-> FALSE, priv |-> NoBytes, pub |-> NoBytes]
      ELSE IF ~priv.ok THEN [ok |-> FALSE, priv |-> NoBytes, pub |-> NoBytes]
      ELSE IF ~pub.ok THEN [ok |-> FALSE, priv |-> NoBytes, pub |-> NoBytes]
      ELSE [ok |-> TRUE, priv |-> priv.val, pub |-> pub.val]

\* PerformLogin that writes the email before the login call
PerformLoginEmailFirst(cfg, tok, kr, fileBackend, email, password, privateKey, publicKey, resp, io, order1, order2) ==
  LET cfg0 == SetEmail(cfg, email, TRUE).cfg
      identity == IF privateKey = NoBytes THEN ResolveIdentityKey(password, resp)
                  ELSE [ok |-> TRUE, priv |-> privateKey, pub |-> publicKey]
  IN  IF resp.err \/ resp.status # StatusOK \/ ~resp.parsed
      THEN LoginOutcome(TRUE, "Authenticating", cfg0, tok, kr, 0)
      ELSE IF ~identity.ok
      THEN LoginOutcome(TRUE, "IdentityKeyResolving", cfg, tok, kr, 0)
      ELSE StoreSession(cfg, tok, kr, fileBackend, email, identity.priv, identity.pub,
                        resp, io, order1, order2)

\* PerformLogin that stores the tokens before it resolves the identity key
PerformLoginTokensFirst(cfg, tok, kr, fileBackend, email, password, privateKey, publicKey, resp, io, order1, order2) ==
  LET tok0 == StoreTokens(tok, coalesce(resp.AccessToken, resp.Access),
                          coalesce(resp.RefreshToken, resp.Refresh),
                          coalesce(resp.ExpiresAt, resp.DataExpiresAt), TRUE).tok
      identity == IF privateKey = NoBytes THEN ResolveIdentityKey(password, resp)
                  ELSE [ok |-> TRUE, priv |-> privateKey, pub |-> publicKey]
  IN  IF resp.err \/ resp.status # StatusOK \/ ~resp.parsed
      THEN LoginOutcome(TRUE, "Authenticating", cfg, tok, kr, 0)
      ELSE IF ~identity.ok
      THEN LoginOutcome(TRUE, "IdentityKeyResolving", cfg, tok0, kr, 0)
      ELSE StoreSession(cfg, tok, kr, fileBackend, email, identity.priv, identity.pub,
                        resp, io, order1, order2)

\* PerformLogin(email, password, privateKey, publicKey) given the response
\* resp of the one auth.login call; privateKey = NoBytes is the nil of the
\* login flow.
PerformLogin(cfg, tok, kr, fileBackend, email, password, privateKey, publicKey, resp, io, order1, order2) ==
  LET identity == IF privateKey = NoBytes THEN ResolveIdentityKey(password, resp)
                  ELSE [ok |-> TRUE, priv |-> privateKey, pub |-> publicKey]
  IN  IF resp.err \/ resp.status # StatusOK \/ ~resp.parsed
      THEN LoginOutcome(TRUE, "Authenticating", cfg, tok, kr, 0)
      ELSE IF ~identity.ok
      THEN LoginOutcome(TRUE, "IdentityKeyResolving", cfg, tok, kr, 0)
      ELSE StoreSession(cfg, tok, kr, fileBackend, email, identity.priv, identity.pub,
                        resp, io, order1, order2)

\* ------------------------------------------------------------------ inputs
\* outcomes of the writes of one PerformLogin. A checked write that fails
\* ends the call, so at most one checked write fails; the two writes of the
\* selected workspace are unchecked and fail independently.
AllWritten ==
  [setEmail |-> TRUE, storeTokens |-> TRUE, privSet |-> TRUE, pubSet |-> TRUE,
   storeCache |-> TRUE, select1 |-> TRUE, select2 |-> TRUE]
CheckedWrites == {"setEmail", "storeTokens", "privSet", "pubSet", "storeCache"}
LoginIOs ==
  {AllWritten}
  \cup {[AllWritten EXCEPT ![f] = FALSE] : f \in CheckedWrites}
  \cup {[AllWritten EXCEPT !.select1 = a, !.select2 = b] : a \in BOOLEAN, b \in BOOLEAN}

\* the token fields of a login response, top level and under data
Tokens(top, data) ==
  [AccessToken |-> IF top THEN "access-top" ELSE "",
   RefreshToken |-> IF top THEN "refresh-top" ELSE "",
   ExpiresAt |-> IF top THEN "expires-top" ELSE "",
   Access |-> IF data THEN "access-data" ELSE "",
   Refresh |-> IF data THEN "refresh-data" ELSE "",
   DataExpiresAt |-> IF data THEN "expires-data" ELSE ""]
TokenBundles == {Tokens(top, data) : top \in BOOLEAN, data \in BOOLEAN}
DefaultTokens == Tokens(FALSE, TRUE)

\* the identity fields of a login response
Identity(enc, salt, pub) ==
  [EncryptedPrivateKey |-> enc, KeySalt |-> salt, PublicKey |-> pub]
\* the record the service holds for keypair i signed up with password 1
GoodIdentity(i) == Identity(B64(Epk(i, 1, "s1")), "s1", B64(Pk(i)))
NoIdentity == Identity(EmptyStr, "", EmptyStr)
Identities ==
  {GoodIdentity(i) : i \in KeyIds}
  \cup {NoIdentity,
        Identity(BadB64, "s1", B64(Pk(1))),
        Identity(B64(Junk), "s1", B64(Pk(1))),
        Identity(B64(Short), "s1", B64(Pk(1))),
        Identity(B64(Epk(1, 1, "s1")), "zz", B64(Pk(1))),
        Identity(B64(Epk(1, 1, "s1")), "s2", B64(Pk(1))),
        Identity(B64(Epk(1, 1, "s1")), "s1", BadB64),
        Identity(B64(Epk(1, 1, "s1")), "s1", B64(ShortPk)),
        Identity(B64(Epk(1, 1, "s1")), "s1", B64(Pk(2)))}

\* one entry of data.workspaces
loginWorkspace(id, type, blob) ==
  [ID |-> id,
   Name |-> IF id = "w1" THEN "alpha" ELSE "beta",
   EncryptedWorkspaceKey |-> blob,
   Role |-> IF type = "personal" THEN "owner" ELSE "member",
   Type |-> type]
WsTypes == {"personal", "team"}
\* the workspace key of workspace id
KeyOf(id) == IF id = "w1" THEN 1 ELSE 2
\* sealed to keypair 1, sealed to keypair 2, not base64
Blobs(id) == {B64(Box(1, KeyOf(id))), B64(Box(2, KeyOf(id))), BadB64}
WsEntries ==
  UNION {{loginWorkspace(id, type, blob) : type \in WsTypes, blob \in Blobs(id)} :
         id \in WsIds}
RECURSIVE SeqsUpTo(_, _)
SeqsUpTo(S, n) ==
  IF n = 0 THEN {<<>>}
  ELSE LET shorter == SeqsUpTo(S, n - 1)
       IN  shorter \cup {Append(q, x) : q \in {r \in shorter : Len(r) = n - 1}, x \in S}
WsLists == SeqsUpTo(WsEntries, MaxWorkspaces)
\* a few lists for the responses whose interest is elsewhere
FewLists ==
  {<<>>,
   <<loginWorkspace("w1", "personal", B64(Box(1, 1)))>>,
   <<loginWorkspace("w1", "team", BadB64), loginWorkspace("w2", "personal", B64(Box(1, 2)))>>,
   <<loginWorkspace("w1", "team", B64(Box(1, 1))), loginWorkspace("w2", "team", B64(Box(1, 2)))>>}

Response(err, status, parsed, tokens, identity, workspaces) ==
  [err |-> err, status |-> status, parsed |-> parsed,
   AccessToken |-> tokens.AccessToken, RefreshToken |-> tokens.RefreshToken,
   ExpiresAt |-> tokens.ExpiresAt,
   Access |-> tokens.Access, Refresh |-> tokens.Refresh,
   DataExpiresAt |-> tokens.DataExpiresAt,
   EncryptedPrivateKey |-> identity.EncryptedPrivateKey,
   KeySalt |-> identity.KeySalt, PublicKey |-> identity.PublicKey,
   Workspaces |-> workspaces]
OkResponse(tokens, identity, workspaces) ==
  Response(FALSE, StatusOK, TRUE, tokens, identity, workspaces)
\* no response at all, a rejected login, a 200 whose body does not parse
NoResponse == Response(TRUE, StatusOK, FALSE, Tokens(FALSE, FALSE), NoIdentity, <<>>)
FailedResponses ==
  {NoResponse,
   Response(FALSE, StatusUnauthorized, TRUE, Tokens(FALSE, FALSE), NoIdentity, <<>>),
   Response(FALSE, StatusOK, FALSE, Tokens(FALSE, FALSE), NoIdentity, <<>>)}
\* one login attempt: who logs in, what the service answers, which writes fail
LoginInput(email, password, resp, io) ==
  [email |-> email, password |-> password, resp |-> resp, io |-> io]

\* Inputs of the first login of a fresh installation: every workspace list
\* under every write outcome, every identity record under both passwords,
\* every token layout.
BootstrapLoginInputs ==
  {LoginInput(e, 1, r, AllWritten) : e \in Emails, r \in FailedResponses}
  \cup {LoginInput(e, 1, OkResponse(DefaultTokens, GoodIdentity(1), l), i) :
          e \in Emails, l \in WsLists, i \in LoginIOs}
  \cup {LoginInput(e, 1, OkResponse(t, GoodIdentity(1), l), AllWritten) :
          e \in Emails, t \in TokenBundles, l \in FewLists}
  \cup {LoginInput(e, p, OkResponse(DefaultTokens, i, l), AllWritten) :
          e \in Emails, p \in Passwords, i \in Identities, l \in FewLists}

\* Inputs of a login anywhere in a session: a lost and a rejected request,
\* a wrong password, an identity key that does not authenticate, the few
\* lists, and a write of the cache or of the selection that fails.
OneWorkspace == <<loginWorkspace("w1", "personal", B64(Box(1, 1)))>>
SessionLoginIOs ==
  {[AllWritten EXCEPT !.storeCache = FALSE],
   [AllWritten EXCEPT !.select1 = FALSE, !.select2 = FALSE]}
SessionLoginInputs ==
  {LoginInput(e, 1, r, AllWritten) :
     e \in Emails,
     r \in {NoResponse,
            Response(FALSE, StatusUnauthorized, TRUE, Tokens(FALSE, FALSE), NoIdentity, <<>>),
            OkResponse(DefaultTokens, Identity(B64(Junk), "s1", B64(Pk(1))), OneWorkspace)}}
  \cup {LoginInput(e, 2, OkResponse(DefaultTokens, GoodIdentity(1), OneWorkspace), AllWritten) :
          e \in Emails}
  \cup {LoginInput(e, 1, OkResponse(DefaultTokens, GoodIdentity(1), l), AllWritten) :
          e \in Emails, l \in FewLists}
  \cup {LoginInput(e, 1, OkResponse(DefaultTokens, GoodIdentity(1), OneWorkspace), i) :
          e \in Emails, i \in SessionLoginIOs}

\* iteration orders of a range over the workspace cache
Orders == {<<"w1", "w2">>, <<"w2", "w1">>}
\* the order matters only when the response names more than one workspace id
OrderMatters(resp) == Cardinality({resp.Workspaces[i].ID : i \in 1..Len(resp.Workspaces)}) > 1
RangeOrders(resp) == IF OrderMatters(resp) THEN Orders ELSE {<<"w1", "w2">>}

\* ------------------------------------------------------- signup and logout
\* crypto.SetupUser with the keypair and salt the random source produced
SetupUser(password, kp, salt) ==
  [PrivateKey |-> Sk(kp), PublicKey |-> Pk(kp),
   EncryptedPrivateKey |-> EncryptPrivateKey(Sk(kp), password, salt).ciphertextB64,
   Salt |-> salt]

\* a signup body that carries the private key itself
SignupBodyPlain(email, password, keys) ==
  [EmptyBody EXCEPT !.email = email, !.password = password,
                    !.public_key = B64(keys.PublicKey),
                    !.encrypted_private_key = B64(keys.PrivateKey),
                    !.key_salt = keys.Salt]

\* the body of the auth.signup request, lines 57-66
SignupBody(email, password, keys) ==
  [EmptyBody EXCEPT !.email = email, !.password = password,
                    !.public_key = B64(keys.PublicKey),
                    !.encrypted_private_key = keys.EncryptedPrivateKey,
                    !.key_salt = keys.Salt]

\* the body of the auth.login request, lines 100-103
LoginBody(email, password) ==
  [EmptyBody EXCEPT !.email = email, !.password = password]

\* a Signup whose auto-login passes no keypair, so that PerformLogin
\* decrypts the identity key of the response
SignupDecrypting(cfg, tok, kr, fileBackend, email, password, keys, signupResp, resp, io, order1, order2) ==
  IF signupResp.err \/ signupResp.status # StatusCreated
  THEN LoginOutcome(TRUE, "Signup", cfg, tok, kr, 0)
  ELSE LET login == PerformLogin(cfg, tok, kr, fileBackend, email, password,
                                 NoBytes, NoBytes, resp, io, order1, order2)
       IN  [login EXCEPT !.calls = 1 + login.calls]

\* a Signup that stores the email before it registers
SignupEmailFirst(cfg, tok, kr, fileBackend, email, password, keys, signupResp, resp, io, order1, order2) ==
  IF signupResp.err \/ signupResp.status # StatusCreated
  THEN LoginOutcome(TRUE, "Signup", SetEmail(cfg, email, TRUE).cfg, tok, kr, 0)
  ELSE [PerformLogin(cfg, tok, kr, fileBackend, email, password, keys.PrivateKey, keys.PublicKey, resp, io, order1, order2) EXCEPT !.calls = 2]

\* Signup: signupResp is the response of auth.signup, resp that of the
\* auth.login call of the auto-login
Signup(cfg, tok, kr, fileBackend, email, password, keys, signupResp, resp, io, order1, order2) ==
  IF signupResp.err \/ signupResp.status # StatusCreated
  THEN LoginOutcome(TRUE, "Signup", cfg, tok, kr, 0)
  ELSE LET login == PerformLogin(cfg, tok, kr, fileBackend, email, password,
                                 keys.PrivateKey, keys.PublicKey, resp, io,
                                 order1, order2)
       IN  [login EXCEPT !.calls = 1 + login.calls]

\* outcomes of the deletes and writes of one Logout
LogoutIOs ==
  {[privDeleted |-> a, pubDeleted |-> b, configWritten |-> TRUE, tokenWritten |-> TRUE] :
     a \in BOOLEAN, b \in BOOLEAN}
  \cup {[privDeleted |-> TRUE, pubDeleted |-> TRUE, configWritten |-> c, tokenWritten |-> ~c] :
     c \in BOOLEAN}

\* Logout that returns the error of the auth.logout call
LogoutStrict(cfg, tok, kr, fileBackend, transport, io) ==
  LET c == ClearSession(cfg, tok, io.configWritten, io.tokenWritten)
      failed == transport.err \/ transport.status # StatusOK
  IN  IF failed THEN LoginOutcome(TRUE, "Call", cfg, tok, kr, 0)
      ELSE LoginOutcome(c.err, IF c.err THEN "ClearSession" ELSE "", c.cfg, c.tok,
                        IF cfg.Email # ""
                        THEN DeleteKeypair(kr, fileBackend, cfg.Email,
                                           io.privDeleted, io.pubDeleted)
                        ELSE kr, 0)

\* Logout: the answer transport of auth.logout is dropped, the keypair of
\* the stored email is deleted, then the session files are cleared; the
\* result is that of ClearSession
Logout(cfg, tok, kr, fileBackend, transport, io) ==
  LET email == cfg.Email
      kr1 == IF email # ""
             THEN DeleteKeypair(kr, fileBackend, email, io.privDeleted, io.pubDeleted)
             ELSE kr
      c == ClearSession(cfg, tok, io.configWritten, io.tokenWritten)
  IN  LoginOutcome(c.err, IF c.err THEN "ClearSession" ELSE "", c.cfg, c.tok, kr1, 0)

\* the files as they are after the deletes and the reset
AtLogoutCallCleared(cfg, tok, kr, fileBackend, io) ==
  [cfg |-> ClearSession(cfg, tok, io.configWritten, io.tokenWritten).cfg,
   tok |-> ClearSession(cfg, tok, io.configWritten, io.tokenWritten).tok,
   kr |-> IF cfg.Email # ""
          THEN DeleteKeypair(kr, fileBackend, cfg.Email, io.privDeleted, io.pubDeleted)
          ELSE kr]

\* the files as Logout's auth.logout request goes out: Logout has read the
\* email and has deleted and written nothing yet; Call returns before
\* DeleteKeypair and ClearSession start
AtLogoutCall(cfg, tok, kr, fileBackend, io) == [cfg |-> cfg, tok |-> tok, kr |-> kr]

\* ------------------------------------------------------------ workspaces.go
\* what a workspace operation returns and leaves behind, and what it sent
WorkspaceOutcome(err, failedAt, cfg, requests) ==
  [err |-> err, failedAt |-> failedAt, cfg |-> cfg, requests |-> requests]

\* the response of workspaces.create
CreateResponse(err, status, parsed, id, type, role) ==
  [err |-> err, status |-> status, parsed |-> parsed, ID |-> id, Type |-> type,
   Role |-> role]

\* a Create that sends the workspace key as it is
CreatePlain(cfg, tok, kr, name, k, resp, written) ==
  LET req == Call("workspaces.create",
                  [EmptyBody EXCEPT !.name = name,
                                    !.encrypted_workspace_key = B64(Wk(k))],
                  tok.AccessToken)
      entry == WorkspaceCacheEntry(name, B64(Wk(k)), resp.Role, resp.Type)
  IN  IF cfg.Email = "" THEN WorkspaceOutcome(TRUE, "NotLoggedIn", cfg, <<>>)
      ELSE IF resp.err \/ resp.status # StatusCreated \/ ~resp.parsed \/ ~written
           THEN WorkspaceOutcome(TRUE, "Call", cfg, <<req>>)
      ELSE WorkspaceOutcome(FALSE, "", [cfg EXCEPT !.Workspaces = MapPut(cfg.Workspaces, resp.ID, entry), !.SelectedWorkspaceID = resp.ID], <<req>>)

\* a Create that clears the pointer before it sends its request
CreateClearingPointer(cfg, tok, kr, name, k, resp, written) ==
  IF cfg.Email = "" THEN WorkspaceOutcome(TRUE, "NotLoggedIn", cfg, <<Call("workspaces.create", EmptyBody, tok.AccessToken)>>)
  ELSE IF resp.err \/ resp.status # StatusCreated \/ ~resp.parsed \/ ~written
       THEN WorkspaceOutcome(TRUE, "Call", [cfg EXCEPT !.SelectedWorkspaceID = ""], <<Call("workspaces.create", EmptyBody, tok.AccessToken)>>)
  ELSE WorkspaceOutcome(FALSE, "", [cfg EXCEPT !.Workspaces = MapPut(cfg.Workspaces, resp.ID, WorkspaceCacheEntry(name, B64(Wk(k)), resp.Role, resp.Type)), !.SelectedWorkspaceID = resp.ID], <<Call("workspaces.create", EmptyBody, tok.AccessToken)>>)

\* Service.Create(name): k is the workspace key GenerateWorkspaceKey draws,
\* written the outcome of SaveGlobalConfig
Create(cfg, tok, kr, name, k, resp, written) ==
  LET email == cfg.Email
      wsKey == Wk(k)
      pubKey == GetPublicKey(kr, email)
      encryptedWsKey == EncryptForUser(pubKey.val, wsKey)
      req == Call("workspaces.create",
                  [EmptyBody EXCEPT !.name = name,
                                    !.encrypted_workspace_key = B64(encryptedWsKey.val)],
                  tok.AccessToken)
      entry == WorkspaceCacheEntry(name, B64(wsKey), resp.Role, resp.Type)
      cfg1 == [cfg EXCEPT !.Workspaces = MapPut(cfg.Workspaces, resp.ID, entry),
                          !.SelectedWorkspaceID = resp.ID]
  IN  IF email = "" THEN WorkspaceOutcome(TRUE, "NotLoggedIn", cfg, <<>>)
      ELSE IF ~pubKey.ok THEN WorkspaceOutcome(TRUE, "GetPublicKey", cfg, <<>>)
      ELSE IF ~encryptedWsKey.ok THEN WorkspaceOutcome(TRUE, "EncryptForUser", cfg, <<>>)
      ELSE IF resp.err \/ resp.status # StatusCreated \/ ~resp.parsed
           THEN WorkspaceOutcome(TRUE, "Call", cfg, <<req>>)
      ELSE IF ~written THEN WorkspaceOutcome(TRUE, "SaveGlobalConfig", cfg, <<req>>)
      ELSE WorkspaceOutcome(FALSE, "", cfg1, <<req>>)

\* the response of users.public_key
PublicKeyResponse(err, status, parsed, publicKey) ==
  [err |-> err, status |-> status, parsed |-> parsed, PublicKey |-> publicKey]

\* an Invite that draws a new workspace key and seals that one
InviteRekey(cfg, tok, workspaceID, email, role, pubKeyResp, inviteResp) ==
  LET pubKeyReq == Call("users.public_key", EmptyBody, tok.AccessToken)
      recipientPubKey == B64Decode(pubKeyResp.PublicKey)
      wsKey == Wk((KeyOf(workspaceID) % NumWsKeys) + 1)
      encryptedForInvitee == EncryptForUser(recipientPubKey.val, wsKey)
      inviteReq == Call("workspaces.invite",
                        [EmptyBody EXCEPT !.email = email, !.role = role,
                           !.encrypted_workspace_key = B64(encryptedForInvitee.val)],
                        tok.AccessToken)
  IN  IF pubKeyResp.err \/ pubKeyResp.status # StatusOK \/ ~pubKeyResp.parsed
         \/ ~recipientPubKey.ok \/ ~encryptedForInvitee.ok
         \/ workspaceID \notin DOMAIN cfg.Workspaces
      THEN WorkspaceOutcome(TRUE, "PublicKey", cfg, <<pubKeyReq>>)
      ELSE WorkspaceOutcome(inviteResp.err \/ inviteResp.status \notin {StatusCreated, StatusOK},
                            "", cfg, <<pubKeyReq, inviteReq>>)

\* an Invite that selects the workspace it shares
InviteSelecting(cfg, tok, workspaceID, email, role, pubKeyResp, inviteResp) ==
  WorkspaceOutcome(inviteResp.err, "", [cfg EXCEPT !.SelectedWorkspaceID = workspaceID],
                   <<Call("users.public_key", EmptyBody, tok.AccessToken)>>)

\* Service.Invite(workspaceID, email, role): inviteResp answers
\* workspaces.invite. The GET of users.public_key has no body.
Invite(cfg, tok, workspaceID, email, role, pubKeyResp, inviteResp) ==
  LET pubKeyReq == Call("users.public_key", EmptyBody, tok.AccessToken)
      recipientPubKey == B64Decode(pubKeyResp.PublicKey)
      wsKey == B64Decode(cfg.Workspaces[workspaceID].Key)
      encryptedForInvitee == EncryptForUser(recipientPubKey.val, wsKey.val)
      inviteReq == Call("workspaces.invite",
                        [EmptyBody EXCEPT !.email = email, !.role = role,
                           !.encrypted_workspace_key = B64(encryptedForInvitee.val)],
                        tok.AccessToken)
  IN  IF pubKeyResp.err \/ pubKeyResp.status # StatusOK \/ ~pubKeyResp.parsed
      THEN WorkspaceOutcome(TRUE, "PublicKey", cfg, <<pubKeyReq>>)
      ELSE IF ~recipientPubKey.ok
      THEN WorkspaceOutcome(TRUE, "PublicKey", cfg, <<pubKeyReq>>)
      ELSE IF workspaceID \notin DOMAIN cfg.Workspaces
      THEN WorkspaceOutcome(TRUE, "NotInCache", cfg, <<pubKeyReq>>)
      ELSE IF ~wsKey.ok
      THEN WorkspaceOutcome(TRUE, "NotInCache", cfg, <<pubKeyReq>>)
      ELSE IF ~encryptedForInvitee.ok
      THEN WorkspaceOutcome(TRUE, "EncryptForUser", cfg, <<pubKeyReq>>)
      ELSE IF inviteResp.err \/ inviteResp.status \notin {StatusCreated, StatusOK}
      THEN WorkspaceOutcome(TRUE, "Call", cfg, <<pubKeyReq, inviteReq>>)
      ELSE WorkspaceOutcome(FALSE, "", cfg, <<pubKeyReq, inviteReq>>)

\* Service.Members(workspaceID): a GET without body
Members(cfg, tok, workspaceID, resp) ==
  LET req == Call("workspaces.members", EmptyBody, tok.AccessToken)
  IN  IF resp.err \/ resp.status # StatusOK \/ ~resp.parsed
      THEN WorkspaceOutcome(TRUE, "Call", cfg, <<req>>)
      ELSE WorkspaceOutcome(FALSE, "", cfg, <<req>>)

\* Service.RemoveMember(workspaceID, email): a DELETE without body
RemoveMember(cfg, tok, workspaceID, email, resp) ==
  LET req == Call("workspaces.remove_member", EmptyBody, tok.AccessToken)
  IN  IF resp.err \/ resp.status \notin {StatusOK, StatusNoContent}
      THEN WorkspaceOutcome(TRUE, "Call", cfg, <<req>>)
      ELSE WorkspaceOutcome(FALSE, "", cfg, <<req>>)

\* requireWorkspaceID, then the service call of the members and remove
\* commands: without a selected workspace no request is made
WithSelectedWorkspace(cfg, out) ==
  IF cfg.SelectedWorkspaceID = "" THEN WorkspaceOutcome(TRUE, "NoWorkspace", cfg, <<>>)
  ELSE out

\* the first id a range over the map yields whose entry has the name, or,
\* for the name "personal", the type personal; "" when none
RECURSIVE RangeMatch(_, _, _, _)
RangeMatch(order, i, cache, name) ==
  IF i > Len(order) THEN ""
  ELSE IF order[i] \in DOMAIN cache
          /\ (cache[order[i]].Name = name
              \/ (name = "personal" /\ cache[order[i]].Type = "personal"))
       THEN order[i]
  ELSE RangeMatch(order, i + 1, cache, name)

\* runWorkspaceSwitch with the name of a workspace; the picker of the call
\* without a name yields an id of the map, as a name of the map does
runWorkspaceSwitch(cfg, name, order, written) ==
  LET selectedID == RangeMatch(order, 1, cfg.Workspaces, name)
      s == SetSelectedWorkspaceID(cfg, selectedID, written)
  IN  IF DOMAIN cfg.Workspaces = {} THEN WorkspaceOutcome(FALSE, "", cfg, <<>>)
      ELSE IF selectedID = "" THEN WorkspaceOutcome(TRUE, "NotFound", cfg, <<>>)
      ELSE IF s.err THEN WorkspaceOutcome(TRUE, "SetSelectedWorkspaceID", cfg, <<>>)
      ELSE WorkspaceOutcome(FALSE, "", s.cfg, <<>>)

\* --------------------------------------------------------- history record
AllDeleted ==
  [privDeleted |-> TRUE, pubDeleted |-> TRUE, configWritten |-> TRUE, tokenWritten |-> TRUE]
\* the arguments and answers of a workspace operation
WorkspaceOp(workspaceID, k, written, publicKey) ==
  [workspaceID |-> workspaceID, k |-> k, written |-> written, PublicKey |-> publicKey]
NoWorkspaceOp == WorkspaceOp("", 0, TRUE, EmptyStr)
Last(op, email, password, resp, io, out, requests, kp) ==
  [op |-> op, email |-> email, password |-> password, resp |-> resp, io |-> io,
   err |-> out.err, failedAt |-> out.failedAt, unwraps |-> out.unwraps,
   calls |-> out.calls,
   requests |-> requests, kp |-> kp,
   preCleared |-> configFile = EmptyGlobalConfig /\ tokenFile = EmptyTokenConfig,
   preSelected |-> configFile.SelectedWorkspaceID,
   transport |-> [err |-> FALSE, status |-> StatusOK], lio |-> AllDeleted,
   ws |-> NoWorkspaceOp]

\* --------------------------------------------------- concurrent invocations
\* Each invocation is a process of its own; the files are what they share.
\* A writer of config.json or of keyring.json is a load, a change of the
\* loaded value and a save, with no lock between them.
Invocations == 1..NumInvocations

FileOp(file, kind, email, id, kp) ==
  [file |-> file, kind |-> kind, email |-> email, id |-> id, kp |-> kp]
\* the cache a login of workspace id stores
CacheOf(id) ==
  MapPut(EmptyCache, id, WorkspaceCacheEntry("alpha", B64(Wk(KeyOf(id))), "owner", "personal"))
ConfigOps ==
  {FileOp("config.json", "SetEmail", e, "", 0) : e \in Emails}
  \cup {FileOp("config.json", "SetSelectedWorkspaceID", "", id, 0) : id \in WsIds}
  \cup {FileOp("config.json", "StoreWorkspaceCache", "", "w1", 0)}
\* with the file backend StoreKeypair is fileSet and DeleteKeypair fileDelete
KeyringOps ==
  {FileOp("keyring.json", "fileSet", e, "", NumKeypairs) : e \in Emails}
  \cup {FileOp("keyring.json", "fileDelete", e, "", 0) : e \in Emails}

\* the contents of the two files
Files(cfg, kr) == [cfg |-> cfg, kr |-> kr]

\* the change an operation makes to the value it loaded
Modify(op, loaded) ==
  IF op.kind = "SetEmail" THEN Files(SetEmail(loaded.cfg, op.email, TRUE).cfg, loaded.kr)
  ELSE IF op.kind = "SetSelectedWorkspaceID"
       THEN Files(SetSelectedWorkspaceID(loaded.cfg, op.id, TRUE).cfg, loaded.kr)
  ELSE IF op.kind = "StoreWorkspaceCache"
       THEN Files(StoreWorkspaceCache(loaded.cfg, CacheOf(op.id), TRUE).cfg, loaded.kr)
  ELSE IF op.kind = "fileSet"
       THEN Files(loaded.cfg,
                  StoreKeypair(loaded.kr, TRUE, op.email, Sk(op.kp), Pk(op.kp), TRUE, TRUE).kr)
  ELSE Files(loaded.cfg, DeleteKeypair(loaded.kr, TRUE, op.email, TRUE, TRUE))

\* a save that changes the value on disk at the time of the save, as a
\* writer does that holds a lock from its load to its save
WrittenBackLocked(op, loaded, onDisk) == Modify(op, onDisk)

\* the save: the file of the operation gets the changed loaded value, the
\* other file stays as it is on disk
WrittenBack(op, loaded, onDisk) ==
  IF op.file = "config.json" THEN Files(Modify(op, loaded).cfg, onDisk.kr)
  ELSE Files(onDisk.cfg, Modify(op, loaded).kr)

\* where an invocation is: its operation, the value it loaded, the
\* invocations that had saved when it loaded, its place among the saves
InFlight(pc, op, loaded, after, turn) ==
  [pc |-> pc, op |-> op, loaded |-> loaded, after |-> after, turn |-> turn]
NotStarted ==
  InFlight("idle", FileOp("", "", "", "", 0), Files(EmptyGlobalConfig, EmptyKeyring), {}, 0)
HasSaved == {p \in Invocations : inflight[p].pc = "saved"}

\* the load of an operation: LoadGlobalConfig or loadKeyringFile
LoadStep(p) ==
  /\ inflight[p].pc = "idle"
  /\ \E op \in ConfigOps \cup (IF useFileBackend THEN KeyringOps ELSE {}) :
       inflight' = [inflight EXCEPT
                      ![p] = InFlight("loaded", op, Files(configFile, keyring), HasSaved, 0)]
  /\ UNCHANGED <<configFile, tokenFile, keyring, useFileBackend, last, serverKnows, trial>>

\* the save of an operation: SaveGlobalConfig or saveKeyringFile
SaveStep(p) ==
  /\ inflight[p].pc = "loaded"
  /\ \E out \in {WrittenBack(inflight[p].op, inflight[p].loaded, Files(configFile, keyring))} :
       /\ configFile' = out.cfg
       /\ keyring' = out.kr
  /\ inflight' = [inflight EXCEPT ![p].pc = "saved",
                                  ![p].turn = Cardinality(HasSaved) + 1]
  /\ UNCHANGED <<tokenFile, useFileBackend, last, serverKnows, trial>>

\* ------------------------------------------------------------ crypto calls
\* One call of a decrypt function of the crypto package on the output of
\* its encrypt function, given as it was made or with one argument changed.
\* secret values: the empty string, a short one, one longer than 4 KB
SecretValues == {Str(1, 0), Str(2, 5), Str(3, 5000)}
NonceIds == {"n1", "n2"}

\* the arguments of a decrypt call; a function reads the ones it has
Args(ciphertext, nonce, salt, password, privateKey, publicKey, workspaceKey, encrypted) ==
  [ciphertext |-> ciphertext, nonce |-> nonce, salt |-> salt, password |-> password,
   privateKey |-> privateKey, publicKey |-> publicKey, workspaceKey |-> workspaceKey,
   encrypted |-> encrypted]

\* a base64 string in place of the string s: one bit of the bytes changed,
\* the bytes cut short, text that is not base64, the empty string
Damaged(s) == {B64(FlipBit(s.raw)), B64(Truncate(s.raw, 4)), BadB64, EmptyStr}

\* the calls of DecryptPrivateKey on what EncryptPrivateKey returned
PrivateKeyArgs(sealed) ==
  {sealed}
  \cup {[sealed EXCEPT !.password = pw] : pw \in Passwords}
  \cup {[sealed EXCEPT !.salt = salt] : salt \in Salts \cup {"", "zz"}}
  \cup {[sealed EXCEPT !.ciphertext = c] : c \in Damaged(sealed.ciphertext)}

\* the calls of DecryptSecret on what EncryptSecret returned
SecretArgs(sealed) ==
  {sealed}
  \cup {[sealed EXCEPT !.workspaceKey = Wk(k)] : k \in WsKeyIds}
  \cup {[sealed EXCEPT !.workspaceKey = Truncate(sealed.workspaceKey, n)] : n \in {8, 16}}
  \cup {[sealed EXCEPT !.ciphertext = c] : c \in Damaged(sealed.ciphertext)}
  \cup {[sealed EXCEPT !.nonce = c] : c \in Damaged(sealed.nonce)}
  \cup {[sealed EXCEPT !.nonce = B64(Nonce(id))] : id \in NonceIds}

\* the calls of DecryptFromUser on what EncryptForUser returned
SealedBoxArgs(sealed) ==
  {sealed}
  \cup {[sealed EXCEPT !.privateKey = Sk(i)] : i \in KeyIds}
  \cup {[sealed EXCEPT !.publicKey = Pk(i)] : i \in KeyIds}
  \cup {[sealed EXCEPT !.publicKey = ShortPk], [sealed EXCEPT !.privateKey = ShortPk]}
  \cup {[sealed EXCEPT !.encrypted = FlipBit(sealed.encrypted)]}
  \cup {[sealed EXCEPT !.encrypted = Truncate(sealed.encrypted, 4)]}

Trial(fn, plain, sealed, args, out) ==
  [fn |-> fn, plain |-> plain, sealed |-> sealed, args |-> args, out |-> out]
NoArgs == Args(EmptyStr, EmptyStr, "", 0, NoBytes, NoBytes, NoBytes, NoBytes)
NoTrial == Trial("", NoBytes, NoArgs, NoArgs, Failed(""))

SessionState == <<configFile, tokenFile, keyring, useFileBackend, last, serverKnows>>

\* EncryptPrivateKey of a private key, then DecryptPrivateKey
PrivateKeyTrial ==
  /\ \E i \in KeyIds, password \in Passwords, salt \in Salts :
       \E e \in {EncryptPrivateKey(Sk(i), password, salt)} :
         \E sealed \in {Args(e.ciphertextB64, EmptyStr, e.saltHex, password,
                              NoBytes, NoBytes, NoBytes, NoBytes)} :
           \E args \in PrivateKeyArgs(sealed) :
             trial' = Trial("DecryptPrivateKey", Sk(i), sealed, args,
                            DecryptPrivateKey(args.ciphertext, args.password, args.salt))
  /\ UNCHANGED <<SessionState, inflight>>

\* EncryptSecret of a secret value, then DecryptSecret
SecretTrial ==
  /\ \E v \in SecretValues, k \in WsKeyIds, id \in NonceIds :
       \E e \in {EncryptSecret(v, Wk(k), id)} :
         \E sealed \in {Args(e.ciphertextB64, e.nonceB64, "", 0,
                              NoBytes, NoBytes, Wk(k), NoBytes)} :
           \E args \in SecretArgs(sealed) :
             trial' = Trial("DecryptSecret", v, sealed, args,
                            DecryptSecret(args.ciphertext, args.nonce, args.workspaceKey))
  /\ UNCHANGED <<SessionState, inflight>>

\* EncryptForUser of a workspace key, then DecryptFromUser
SealedBoxTrial ==
  /\ \E i \in KeyIds, k \in WsKeyIds :
       \E e \in {EncryptForUser(Pk(i), Wk(k))} :
         \E sealed \in {Args(EmptyStr, EmptyStr, "", 0, Sk(i), Pk(i), NoBytes, e.val)} :
           \E args \in SealedBoxArgs(sealed) :
             trial' = Trial("DecryptFromUser", Wk(k), sealed, args,
                            DecryptFromUser(args.privateKey, args.publicKey, args.encrypted))
  /\ UNCHANGED <<SessionState, inflight>>

\* DeriveKeyFromPassword as EncryptPrivateKey calls it at signup, with the
\* salt it generated, then as DecryptPrivateKey calls it at login
DeriveKeyTrial ==
  /\ \E password \in Passwords, salt \in Salts :
       \E sealed \in {Args(EmptyStr, EmptyStr, salt, password,
                            NoBytes, NoBytes, NoBytes, NoBytes)} :
         \E args \in {[sealed EXCEPT !.password = pw, !.salt = s] :
                         pw \in Passwords, s \in Salts \cup {"", "zz"}} :
           \E atSignup \in {DeriveKeyFromPassword(sealed.password, sealed.salt)},
              atLogin \in {DeriveKeyFromPassword(args.password, args.salt)} :
             trial' = Trial("DeriveKeyFromPassword", KeyBytes(atSignup), sealed, args,
                            IF atLogin.ok THEN Ok(KeyBytes(atLogin))
                            ELSE Failed("invalid salt hex"))
  /\ UNCHANGED <<SessionState, inflight>>

\* ------------------------------------------------------------------ actions
Init ==
  /\ configFile = EmptyGlobalConfig
  /\ tokenFile = EmptyTokenConfig
  /\ keyring = EmptyKeyring
  /\ useFileBackend \in BOOLEAN
  /\ last = Last("start", "", 0, NoResponse, AllWritten,
                 [LoginOutcome(FALSE, "", EmptyGlobalConfig, EmptyTokenConfig,
                               EmptyKeyring, 0) EXCEPT !.calls = 0],
                 <<>>, 0)
  /\ serverKnows = {}
  /\ inflight = [p \in Invocations |-> NotStarted]
  /\ trial = NoTrial

\* one run of the login command with an input of the set inputs
LoginStep(inputs) ==
  \E in \in inputs :
    \E order1 \in RangeOrders(in.resp), order2 \in RangeOrders(in.resp) :
      \E out \in {PerformLogin(configFile, tokenFile, keyring, useFileBackend,
                                in.email, in.password, NoBytes, NoBytes, in.resp,
                                in.io, order1, order2)} :
      LET req == Call("auth.login", LoginBody(in.email, in.password),
                      tokenFile.AccessToken)
      IN  /\ configFile' = out.cfg
          /\ tokenFile' = out.tok
          /\ keyring' = out.kr
          /\ last' = Last("login", in.email, in.password, in.resp, in.io, out,
                          <<req>>, 0)
          /\ UNCHANGED useFileBackend

\* the answers to auth.signup: lost, created, refused
SignupResponses ==
  {[err |-> TRUE, status |-> StatusCreated],
   [err |-> FALSE, status |-> StatusCreated],
   [err |-> FALSE, status |-> StatusUnauthorized]}
SignupCreated == [err |-> FALSE, status |-> StatusCreated]

\* one signup: the account, the keypair and salt SetupUser generates, the
\* answer to auth.signup and the input of the auto-login
SignupInput(email, password, kp, salt, signupResp, resp, io) ==
  [email |-> email, password |-> password, kp |-> kp, salt |-> salt,
   signupResp |-> signupResp, resp |-> resp, io |-> io]
\* the service seals the personal workspace of a new account to its key
PersonalList(kp) == <<loginWorkspace("w1", "personal", B64(Box(kp, 1)))>>
\* Inputs of the signup of a fresh installation: every answer to
\* auth.signup, and after a created account every kind of login answer
\* under every write outcome.
BootstrapSignupInputsFor(kp) ==
  {SignupInput(e, 1, kp, "s1", r, NoResponse, AllWritten) :
     e \in Emails, r \in SignupResponses \ {SignupCreated}}
  \cup {SignupInput(e, 1, kp, "s1", SignupCreated, r, AllWritten) :
          e \in Emails, r \in FailedResponses}
  \cup {SignupInput(e, 1, kp, "s1", SignupCreated, OkResponse(DefaultTokens, NoIdentity, l), i) :
          e \in Emails, i \in LoginIOs,
          l \in {<<>>, PersonalList(kp),
                 <<loginWorkspace("w1", "team", B64(Box(kp, 1))),
                   loginWorkspace("w2", "personal", B64(Box(kp, 2)))>>}}
BootstrapSignupInputs == UNION {BootstrapSignupInputsFor(kp) : kp \in KeyIds}
SignupInputsFor(kp) ==
  {SignupInput(e, 1, kp, "s1", r, NoResponse, AllWritten) :
     e \in Emails, r \in {[err |-> FALSE, status |-> StatusUnauthorized]}}
  \cup {SignupInput(e, 1, kp, "s1", SignupCreated, r, AllWritten) :
     e \in Emails,
     r \in {NoResponse, OkResponse(DefaultTokens, NoIdentity, PersonalList(kp))}}
\* in a session the generated keypair is the last one
SessionSignupInputs == SignupInputsFor(NumKeypairs)

\* one run of the signup command with an input of the set inputs
SignupStep(inputs) ==
  \E in \in inputs :
    \E order1 \in RangeOrders(in.resp), order2 \in RangeOrders(in.resp) :
      \E keys \in {SetupUser(in.password, in.kp, in.salt)} :
      \E out \in {Signup(configFile, tokenFile, keyring, useFileBackend, in.email,
                          in.password, keys, in.signupResp, in.resp, in.io,
                          order1, order2)} :
      LET signupReq == Call("auth.signup", SignupBody(in.email, in.password, keys),
                            tokenFile.AccessToken)
          loginReq == Call("auth.login", LoginBody(in.email, in.password),
                           tokenFile.AccessToken)
          sent == IF out.failedAt = "Signup" THEN <<signupReq>>
                  ELSE <<signupReq, loginReq>>
      IN  /\ configFile' = out.cfg
          /\ tokenFile' = out.tok
          /\ keyring' = out.kr
          /\ last' = [Last("signup", in.email, in.password, in.resp, in.io, out, sent,
                           in.kp)
                        EXCEPT !.transport = in.signupResp]
          /\ UNCHANGED useFileBackend

\* the logout request is lost, answered or rejected
LogoutResponses ==
  {[err |-> TRUE, status |-> StatusOK],
   [err |-> FALSE, status |-> StatusOK],
   [err |-> FALSE, status |-> StatusUnauthorized]}
LogoutInputs == {[transport |-> t, io |-> i] : t \in LogoutResponses, i \in LogoutIOs}
\* in a session a delete fails for both keys or for none
SessionLogoutInputs ==
  {in \in LogoutInputs : in.io.privDeleted = in.io.pubDeleted
                         /\ (in.io = AllDeleted \/ ~in.transport.err)}

\* authService.Logout()
LogoutStep(inputs) ==
  \E in \in inputs :
    \E out \in {Logout(configFile, tokenFile, keyring, useFileBackend,
                        in.transport, in.io)} :
    LET atCall == AtLogoutCall(configFile, tokenFile, keyring, useFileBackend, in.io)
        req == Call("auth.logout", EmptyBody, atCall.tok.AccessToken)
    IN  /\ configFile' = out.cfg
        /\ tokenFile' = out.tok
        /\ keyring' = out.kr
        /\ last' = [Last("logout", configFile.Email, 0, NoResponse, AllWritten, out,
                         <<req>>, 0)
                      EXCEPT !.transport = in.transport, !.lio = in.io]
        /\ UNCHANGED useFileBackend

\* the answers to workspaces.create: created as a team workspace, refused, lost
CreateResponses ==
  {CreateResponse(FALSE, StatusCreated, TRUE, "w2", "team", "owner"),
   CreateResponse(FALSE, StatusUnauthorized, TRUE, "", "", ""),
   CreateResponse(TRUE, StatusCreated, FALSE, "", "", "")}
\* the new workspace key is the last one
CreateInputs ==
  {[k |-> NumWsKeys, resp |-> r, written |-> TRUE] : r \in CreateResponses}
  \cup {[k |-> NumWsKeys, resp |-> r, written |-> FALSE] :
          r \in {CreateResponse(FALSE, StatusCreated, TRUE, "w2", "team", "owner")}}

\* workspacesService.Create("gamma")
CreateStep(inputs) ==
  \E in \in inputs :
    \E out \in {Create(configFile, tokenFile, keyring, "gamma", in.k, in.resp,
                        in.written)} :
      /\ configFile' = out.cfg
      /\ last' = [Last("create", configFile.Email, 0, NoResponse, AllWritten,
                       [LoginOutcome(out.err, out.failedAt, out.cfg, tokenFile,
                                     keyring, 0)
                          EXCEPT !.calls = Len(out.requests)],
                       out.requests, 0)
                    EXCEPT !.transport = [err |-> in.resp.err, status |-> in.resp.status],
                           !.ws = WorkspaceOp(in.resp.ID, in.k, in.written, EmptyStr)]
      /\ UNCHANGED <<tokenFile, keyring, useFileBackend>>

\* the answers to users.public_key and to workspaces.invite
PublicKeyResponses ==
  {PublicKeyResponse(FALSE, StatusOK, TRUE, B64(Pk(NumKeypairs))),
   PublicKeyResponse(FALSE, StatusOK, TRUE, B64(ShortPk)),
   PublicKeyResponse(FALSE, StatusOK, TRUE, BadB64),
   PublicKeyResponse(FALSE, StatusUnauthorized, TRUE, EmptyStr)}
InviteResponses ==
  {[err |-> FALSE, status |-> StatusCreated],
   [err |-> FALSE, status |-> StatusOK],
   [err |-> FALSE, status |-> StatusUnauthorized]}
InviteInputs ==
  {[workspaceID |-> id, pubKeyResp |-> r, inviteResp |-> [err |-> FALSE, status |-> StatusCreated]] :
     id \in WsIds, r \in PublicKeyResponses}
  \cup {[workspaceID |-> "w1",
         pubKeyResp |-> PublicKeyResponse(FALSE, StatusOK, TRUE, B64(Pk(NumKeypairs))),
         inviteResp |-> r] : r \in InviteResponses}

\* workspacesService.Invite(workspaceID, "b@x", "member")
InviteStep(inputs) ==
  \E in \in inputs :
    \E out \in {Invite(configFile, tokenFile, in.workspaceID, "b@x", "member",
                        in.pubKeyResp, in.inviteResp)} :
      /\ last' = [Last("invite", "b@x", 0, NoResponse, AllWritten,
                       [LoginOutcome(out.err, out.failedAt, out.cfg, tokenFile,
                                     keyring, 0)
                          EXCEPT !.calls = Len(out.requests)],
                       out.requests, 0)
                    EXCEPT !.transport = in.inviteResp,
                           !.ws = WorkspaceOp(in.workspaceID, 0, TRUE,
                                              IF in.pubKeyResp.err
                                                 \/ in.pubKeyResp.status # StatusOK
                                              THEN EmptyStr
                                              ELSE in.pubKeyResp.PublicKey)]
      /\ configFile' = out.cfg
      /\ UNCHANGED <<tokenFile, keyring, useFileBackend>>

\* the record of a workspace command that ran on workspace id with the
\* answer transport
WorkspaceLast(op, email, out, id, transport) ==
  [Last(op, email, 0, NoResponse, AllWritten,
        [LoginOutcome(out.err, out.failedAt, out.cfg, tokenFile, keyring, 0)
           EXCEPT !.calls = Len(out.requests)],
        out.requests, 0)
     EXCEPT !.transport = transport, !.ws = WorkspaceOp(id, 0, TRUE, EmptyStr)]

\* the answers to a request without key material: accepted, done without
\* content, refused
PlainResponses ==
  {[err |-> FALSE, status |-> StatusOK, parsed |-> TRUE],
   [err |-> FALSE, status |-> StatusNoContent, parsed |-> TRUE],
   [err |-> FALSE, status |-> StatusUnauthorized, parsed |-> TRUE]}

\* workspace members
MembersStep ==
  \E resp \in PlainResponses :
    \E out \in {WithSelectedWorkspace(configFile,
                   Members(configFile, tokenFile, configFile.SelectedWorkspaceID, resp))} :
      /\ configFile' = out.cfg
      /\ last' = WorkspaceLast("members", configFile.Email, out,
                               configFile.SelectedWorkspaceID,
                               [err |-> resp.err, status |-> resp.status])
      /\ UNCHANGED <<tokenFile, keyring, useFileBackend>>

\* workspace remove b@x, confirmed
RemoveStep ==
  \E resp \in PlainResponses :
    \E out \in {WithSelectedWorkspace(configFile,
                   RemoveMember(configFile, tokenFile, configFile.SelectedWorkspaceID,
                                "b@x", resp))} :
      /\ configFile' = out.cfg
      /\ last' = WorkspaceLast("remove", "b@x", out, configFile.SelectedWorkspaceID,
                               [err |-> resp.err, status |-> resp.status])
      /\ UNCHANGED <<tokenFile, keyring, useFileBackend>>

\* the names given to workspace switch, and a write that fails
SwitchInputs ==
  {[name |-> n, written |-> TRUE] : n \in {"alpha", "gamma", "personal", "delta"}}
  \cup {[name |-> "gamma", written |-> FALSE]}

\* workspace switch name
SwitchStep ==
  \E in \in SwitchInputs, order \in Orders :
    \E out \in {runWorkspaceSwitch(configFile, in.name, order, in.written)} :
      /\ configFile' = out.cfg
      /\ last' = [WorkspaceLast("switch", configFile.Email, out,
                                RangeMatch(order, 1, configFile.Workspaces, in.name),
                                [err |-> FALSE, status |-> StatusOK])
                    EXCEPT !.ws.written = in.written]
      /\ UNCHANGED <<tokenFile, keyring, useFileBackend>>

\* status: reads the session and writes nothing
StatusStep ==
  /\ last' = WorkspaceLast("status", configFile.Email,
                           WorkspaceOutcome(FALSE, "", configFile, <<>>),
                           configFile.SelectedWorkspaceID,
                           [err |-> FALSE, status |-> StatusOK])
  /\ UNCHANGED <<configFile, tokenFile, keyring, useFileBackend>>

\* ------------------------------------------------------------------ init.go
\* InitGlobalConfig: a file that exists is left as it is; a file that does
\* not exist is created with the defaults, and a failed write returns
\* before the next file. A file that does not exist reads as the defaults.
InitGlobalConfig(cfg, tok, configExists, tokenExists, configWritten, tokenWritten) ==
  IF ~configExists /\ ~configWritten THEN [err |-> TRUE, cfg |-> cfg, tok |-> tok]
  ELSE IF ~tokenExists /\ ~tokenWritten
       THEN [err |-> TRUE, cfg |-> IF configExists THEN cfg ELSE EmptyGlobalConfig,
             tok |-> tok]
  ELSE [err |-> FALSE, cfg |-> IF configExists THEN cfg ELSE EmptyGlobalConfig,
        tok |-> IF tokenExists THEN tok ELSE EmptyTokenConfig]

\* what init is run with: which files exist, the --force flag, the answer
\* to "Reinitialize?", whether the writes succeed
InitInput(configExists, tokenExists, forceReinit, confirm, written) ==
  [configExists |-> configExists, tokenExists |-> tokenExists,
   forceReinit |-> forceReinit, confirm |-> confirm, written |-> written]
\* a file with other contents than the defaults exists
InitInputs ==
  {InitInput(c, t, f, a, w) :
     c \in IF configFile # EmptyGlobalConfig THEN {TRUE} ELSE BOOLEAN,
     t \in IF tokenFile # EmptyTokenConfig THEN {TRUE} ELSE BOOLEAN,
     f \in BOOLEAN, a \in BOOLEAN, w \in BOOLEAN}

\* runInit up to the choice between signup and login: "kept" when the user
\* declines, otherwise the initialisation step, "reinit" when config.json
\* existed and "init" when it did not
runInit(cfg, tok, in) ==
  IF in.configExists /\ ~in.forceReinit /\ ~in.confirm
  THEN [op |-> "kept", err |-> FALSE, cfg |-> cfg, tok |-> tok]
  ELSE LET out == InitGlobalConfig(cfg, tok, in.configExists, in.tokenExists,
                                   in.written, in.written)
       IN  [op |-> IF in.configExists THEN "reinit" ELSE "init",
            err |-> out.err, cfg |-> out.cfg, tok |-> out.tok]

\* the init command up to its choice prompt; the signup or login chosen
\* there is the run of runSignup or runLoginFlow that follows
InitStep ==
  \E in \in InitInputs :
    \E out \in {runInit(configFile, tokenFile, in)} :
      /\ configFile' = out.cfg
      /\ tokenFile' = out.tok
      /\ last' = Last(out.op, configFile.Email, 0, NoResponse, AllWritten,
                      [LoginOutcome(out.err, "", out.cfg, out.tok, keyring, 0)
                         EXCEPT !.calls = 0],
                      <<>>, 0)
      /\ UNCHANGED <<keyring, useFileBackend>>

\* --------------------------------------------- what the remote service sees
Pw(password) == Bytes("pw", password, 0, "", 0)
SaltBytes(saltHex) == Bytes("salt", 0, 0, saltHex, SaltSize)

\* the byte strings a wire string carries
Carried(strings) == {B64Decode(x).val : x \in {y \in strings : y.enc = "b64"}}

\* the key material of one request body
BodyTerms(body) ==
  (IF body.password # 0 THEN {Pw(body.password)} ELSE {})
  \cup (IF body.key_salt # "" THEN {SaltBytes(body.key_salt)} ELSE {})
  \cup Carried({body.public_key, body.encrypted_private_key,
                body.encrypted_workspace_key})
RequestTerms(requests) ==
  UNION {BodyTerms(requests[i].body) : i \in 1..Len(requests)}

\* the key material of a login response that was sent
ResponseTerms(resp) ==
  IF resp.err THEN {}
  ELSE (IF resp.KeySalt # "" THEN {SaltBytes(resp.KeySalt)} ELSE {})
       \cup Carried({resp.EncryptedPrivateKey, resp.PublicKey}
                    \cup {resp.Workspaces[i].EncryptedWorkspaceKey :
                            i \in 1..Len(resp.Workspaces)})

\* everything the service received or returned in the operation l
Seen(l) ==
  RequestTerms(l.requests)
  \cup (IF l.op = "login" \/ (l.op = "signup" /\ l.failedAt # "Signup")
        THEN ResponseTerms(l.resp) ELSE {})
  \cup Carried({l.ws.PublicKey})

\* what the service can compute from what it holds: it runs the same
\* DecryptPrivateKey and DecryptFromUser as a client
ServerPrivateKeys(K) ==
  {r.val : r \in {x \in {DecryptPrivateKey(B64(c), p.a, sl.c) :
                            c \in {t \in K : t.t = "epk"},
                            p \in {t \in K : t.t = "pw"},
                            sl \in {t \in K : t.t = "salt"}} : x.ok}}
ServerWorkspaceKeys(K) ==
  {t \in K : t.t = "wk"}
  \cup {r.val : r \in {x \in {DecryptFromUser(sk, pk, b) :
                                 sk \in ServerPrivateKeys(K) \cup {t \in K : t.t = "sk"},
                                 pk \in {t \in K : t.t = "pk"},
                                 b \in {t \in K : t.t = "box"}} : x.ok}}

\* ---------------------------------------------------------- specifications
\* A session: any sequence of the commands.
LoginCmd == LoginStep(SessionLoginInputs) /\ UNCHANGED <<serverKnows, inflight, trial>>
SignupCmd == SignupStep(SessionSignupInputs) /\ UNCHANGED <<serverKnows, inflight, trial>>
LogoutCmd == LogoutStep(SessionLogoutInputs) /\ UNCHANGED <<serverKnows, inflight, trial>>

Next == LoginCmd \/ SignupCmd \/ LogoutCmd

Spec == Init /\ [][Next]_vars

\* The same with the init command, whose signup or login is the SignupCmd
\* or LoginCmd that follows it.
InitCmd == InitStep /\ UNCHANGED <<serverKnows, inflight, trial>>
NextInit == InitCmd \/ LoginCmd \/ SignupCmd \/ LogoutCmd
SpecInit == Init /\ [][NextInit]_vars

\* The bootstrap: the first login or signup of a fresh installation, then a
\* logout.
FirstLogin ==
  last.op = "start" /\ LoginStep(BootstrapLoginInputs) /\ UNCHANGED <<serverKnows, inflight, trial>>
FirstSignup ==
  last.op = "start" /\ SignupStep(BootstrapSignupInputs) /\ UNCHANGED <<serverKnows, inflight, trial>>
LogoutAfter ==
  /\ last.op \in {"login", "signup"}
  /\ LogoutStep(LogoutInputs) /\ UNCHANGED <<serverKnows, inflight, trial>>

NextBootstrap == FirstLogin \/ FirstSignup \/ LogoutAfter

SpecBootstrap == Init /\ [][NextBootstrap]_vars

\* A session with the workspace commands, and the record of what the remote
\* service has seen.
WorkspaceLoginInputs ==
  {LoginInput("a@x", p, OkResponse(DefaultTokens, GoodIdentity(1), OneWorkspace), AllWritten) :
     p \in Passwords}
  \cup {LoginInput("a@x", 1, NoResponse, AllWritten)}
WorkspaceSignupInputs == {in \in SessionSignupInputs : in.email = "a@x"}
WorkspaceLogoutInputs ==
  {in \in LogoutInputs : in.io = AllDeleted /\ ~in.transport.err}
Observe == serverKnows' = serverKnows \cup Seen(last') /\ UNCHANGED <<inflight, trial>>

WsLogin == LoginStep(WorkspaceLoginInputs) /\ Observe
WsSignup == SignupStep(WorkspaceSignupInputs) /\ Observe
WsCreate == CreateStep(CreateInputs) /\ Observe
WsInvite == InviteStep(InviteInputs) /\ Observe
WsLogout == LogoutStep(WorkspaceLogoutInputs) /\ Observe
WsSwitch == SwitchStep /\ Observe
WsMembers == MembersStep /\ Observe
WsRemove == RemoveStep /\ Observe
WsStatus == StatusStep /\ Observe

NextWorkspace ==
  \/ WsLogin \/ WsSignup \/ WsCreate \/ WsInvite \/ WsLogout
  \/ WsSwitch \/ WsMembers \/ WsRemove \/ WsStatus

SpecWorkspace == Init /\ [][NextWorkspace]_vars

\* Login as a@x against a service that answers with the user's record or
\* with the user's encrypted private key and another public key, then
\* workspace creation and logout.
KeysLoginInputs ==
  {LoginInput("a@x", 1, OkResponse(DefaultTokens, i, OneWorkspace), AllWritten) :
     i \in {GoodIdentity(1), Identity(B64(Epk(1, 1, "s1")), "s1", B64(Pk(NumKeypairs)))}}
  \cup {LoginInput("a@x", 1, NoResponse, AllWritten),
        LoginInput("a@x", 1, OkResponse(DefaultTokens, GoodIdentity(1), OneWorkspace),
                   [AllWritten EXCEPT !.privSet = FALSE, !.pubSet = FALSE])}
KeysLogin == LoginStep(KeysLoginInputs) /\ UNCHANGED <<serverKnows, inflight, trial>>
\* a signup as a@x or b@x, refused, lost in transport or created
KeysSignupInputs ==
  SessionSignupInputs
  \cup {SignupInput(e, 1, NumKeypairs, "s1", [err |-> TRUE, status |-> StatusCreated],
                     NoResponse, AllWritten) : e \in Emails}
KeysSignup == SignupStep(KeysSignupInputs) /\ UNCHANGED <<serverKnows, inflight, trial>>
KeysCreate == CreateStep(CreateInputs) /\ UNCHANGED <<serverKnows, inflight, trial>>
KeysLogout == LogoutStep(WorkspaceLogoutInputs) /\ UNCHANGED <<serverKnows, inflight, trial>>
NextKeys == KeysLogin \/ KeysSignup \/ KeysCreate \/ KeysLogout
SpecKeys == Init /\ [][NextKeys]_vars

\* Invocations of the tool that run at the same time, each with one writer
\* of a file, their loads and saves in any order.
NextRace == \E p \in Invocations : LoadStep(p) \/ SaveStep(p)

SpecRace == Init /\ [][NextRace]_vars

\* the crypto package alone: each function applied to bounded inputs
NextCrypto == PrivateKeyTrial \/ SecretTrial \/ SealedBoxTrial \/ DeriveKeyTrial
SpecCrypto == Init /\ [][NextCrypto]_vars

\* ------------------------------------------------------------------ claims
\* PerformLogin ran in the operation l: a login, or a signup whose account
\* was created
PerformLoginRan(l) ==
  \/ l.op = "login"
  \/ l.op = "signup" /\ ~l.transport.err /\ l.transport.status = StatusCreated
\* the login call of l returned success
Authenticates(l) == ~l.resp.err /\ l.resp.status = StatusOK /\ l.resp.parsed
\* the server-returned identity key of l does not decrypt
DecryptFails(l) ==
  /\ l.resp.EncryptedPrivateKey.enc # "empty"
  /\ l.resp.KeySalt # ""
  /\ l.resp.PublicKey.enc # "empty"
  /\ ~DecryptPrivateKey(l.resp.EncryptedPrivateKey, l.password, l.resp.KeySalt).ok
\* the identity keypair of l: generated by the signup, or decrypted from
\* the login response
IdentityOf(l) ==
  IF l.op = "signup" THEN [ok |-> TRUE, priv |-> Sk(l.kp), pub |-> Pk(l.kp)]
  ELSE LET priv == DecryptPrivateKey(l.resp.EncryptedPrivateKey, l.password,
                                     l.resp.KeySalt)
           pub == B64Decode(l.resp.PublicKey)
       IN  [ok |-> /\ l.resp.EncryptedPrivateKey.enc # "empty"
                   /\ l.resp.KeySalt # ""
                   /\ l.resp.PublicKey.enc # "empty"
                   /\ priv.ok /\ pub.ok,
            priv |-> priv.val, pub |-> pub.val]
IdentityResolved(l) == PerformLoginRan(l) /\ Authenticates(l) /\ IdentityOf(l).ok
\* the workspace key of entry i of the response of l, when its blob decodes
\* and opens under the identity keypair
Unwrapped(l, i) ==
  LET blob == B64Decode(l.resp.Workspaces[i].EncryptedWorkspaceKey)
  IN  IF ~blob.ok THEN Err
      ELSE DecryptFromUser(IdentityOf(l).priv, IdentityOf(l).pub, blob.val)
ValidEntries(l) == {i \in 1..Len(l.resp.Workspaces) : Unwrapped(l, i).ok}
DistinctIds(l) ==
  \A i, j \in 1..Len(l.resp.Workspaces) :
    i # j => l.resp.Workspaces[i].ID # l.resp.Workspaces[j].ID
\* the cache the response of l resolves to: one entry per id with a valid
\* blob, from the last valid entry of that id
ExpectedCache(l) ==
  [id \in {l.resp.Workspaces[i].ID : i \in ValidEntries(l)} |->
     LET i == CHOOSE i \in ValidEntries(l) :
                /\ l.resp.Workspaces[i].ID = id
                /\ \A j \in ValidEntries(l) : l.resp.Workspaces[j].ID = id => j <= i
         ws == l.resp.Workspaces[i]
     IN  WorkspaceCacheEntry(ws.Name, B64(Unwrapped(l, i).val), ws.Role, ws.Type)]
\* no write that PerformLogin checks fails in l
NoWriteFailed(l) ==
  /\ l.io.setEmail /\ l.io.storeTokens /\ l.io.privSet /\ l.io.pubSet
  /\ (ValidEntries(l) = {} \/ l.io.storeCache)
\* the case of C1: a cleared session, the identity resolved, distinct ids
BootstrapCase(l) == l.preCleared /\ IdentityResolved(l) /\ DistinctIds(l)

C2_CacheBuiltFresh ==
  PerformLoginRan(last) /\ ~last.err
    => configFile.Workspaces = ExpectedCache(last)

\* C3 as stated: once the login call has succeeded and the identity keypair
\* is resolved, PerformLogin returns success whatever the outcome of the
\* writes.
C3_AsStated == IdentityResolved(last) => ~last.err

\* C3 amended: once the login call has succeeded and the identity keypair
\* is resolved, PerformLogin returns success exactly when no write of the
\* email, the tokens, the keypair or a non-empty workspace cache fails.
C3_FailedOnlyBeforeStoring ==
  IdentityResolved(last) => (last.err <=> ~NoWriteFailed(last))

\* a login past the identity key that fails on the write of the keypair
C3_Witness ==
  /\ IdentityResolved(last)
  /\ ~last.io.pubSet
  /\ last.err
  /\ configFile.Email = last.email

\* C4 as stated: the remote service cannot derive a plaintext workspace key
\* from the request bodies it received and the responses it returned.
C4_ZeroKnowledge == ServerWorkspaceKeys(serverKnows) = {}

\* the login call of this step failed or was answered with another status
\* than 200
LoginCallFails(l) == PerformLoginRan(l) /\ (l.resp.err \/ l.resp.status # StatusOK)
SessionUnchanged ==
  configFile' = configFile /\ tokenFile' = tokenFile /\ keyring' = keyring

\* C5: when the login call fails or returns another status than 200,
\* PerformLogin returns an error after that one login request and leaves
\* the email, the tokens, the key store, the workspace cache and the
\* selected workspace as they were.
C5_LoginCallFailure ==
  [][LoginCallFails(last')
       => /\ last'.err
          /\ last'.calls = (IF last'.op = "signup" THEN 2 ELSE 1)
          /\ Len(last'.requests) = last'.calls
          /\ SessionUnchanged]_vars

\* a rejected login on top of an earlier session
C5_Witness ==
  /\ last.op = "login"
  /\ last.resp.status # StatusOK
  /\ last.err
  /\ ~last.preCleared
  /\ DOMAIN configFile.Workspaces # {}

\* C6: in the login flow, when the server-returned identity key does not
\* decrypt under the password and the server-returned salt, PerformLogin
\* returns an error, attempts no unwrap of a workspace key and leaves the
\* email, the tokens, the key store, the workspace cache and the selected
\* workspace as they were.
C6_IdentityDecryptFailure ==
  [][last'.op = "login" /\ Authenticates(last') /\ DecryptFails(last')
       => last'.err /\ last'.unwraps = 0 /\ SessionUnchanged]_vars

\* a login with the wrong password on top of an earlier session
C6_Witness ==
  /\ last.op = "login"
  /\ Authenticates(last) /\ DecryptFails(last)
  /\ Len(last.resp.Workspaces) > 0
  /\ last.err
  /\ ~last.preCleared
  /\ tokenFile.AccessToken # ""

\* C7 as stated: Logout always returns success.
C7_AsStated == last.op = "logout" => ~last.err

\* C7 amended: Logout returns the result of ClearSession: success exactly
\* when both session files are written, whether the logout request
\* succeeds, fails or is rejected and whether the deletes of the keypair
\* succeed or fail.
C7_LogoutResult ==
  last.op = "logout"
    => (last.err <=> ~(last.lio.configWritten /\ last.lio.tokenWritten))

\* a logout that succeeds although the request is lost and a delete fails
C7_Witness ==
  /\ last.op = "logout"
  /\ last.email # ""
  /\ last.transport.err
  /\ ~last.lio.privDeleted
  /\ ~last.err

\* C8 as stated, for a Logout that returns success and a key store whose
\* deletes succeed: after Logout the key store holds no identity keypair of
\* a preceding signup or login.
C8_KeypairsDeleted ==
  last.op = "logout" /\ ~last.err /\ last.lio.privDeleted /\ last.lio.pubDeleted
    => keyring = EmptyKeyring

\* C9: after Logout returns success the email, the tokens, the workspace
\* cache and the selected workspace are empty, IsAuthenticated is false and
\* GetWorkspaceKey fails for every workspace id.
C9_SessionCleared ==
  last.op = "logout" /\ ~last.err
    => /\ configFile.Email = ""
       /\ tokenFile.AccessToken = "" /\ tokenFile.RefreshToken = ""
       /\ DOMAIN configFile.Workspaces = {}
       /\ configFile.SelectedWorkspaceID = ""
       /\ ~IsAuthenticated(configFile, tokenFile)
       /\ \A id \in WsIds : ~GetWorkspaceKey(configFile, id).ok

\* a successful logout out of a session that was not cleared
C9_Witness == last.op = "logout" /\ ~last.err /\ ~last.preCleared

\* the case of C10: a successful PerformLogin that cached a workspace, none
\* selected before, a personal entry in the cache
SelectionCase(l) ==
  /\ IdentityResolved(l) /\ ~l.err
  /\ ValidEntries(l) # {}
  /\ l.preSelected = ""
  /\ \E id \in DOMAIN configFile.Workspaces : configFile.Workspaces[id].Type = "personal"
SelectedIsPersonal ==
  /\ configFile.SelectedWorkspaceID \in DOMAIN configFile.Workspaces
  /\ configFile.Workspaces[configFile.SelectedWorkspaceID].Type = "personal"

SuppliedKey(l) == IF l.op = "signup" THEN Sk(l.kp) ELSE NoBytes
\* the workspace PerformLogin selects when the operation l runs from the
\* state config, tokens, store with the range orders o1 and o2
SelectedUnder(l, config, tokens, store, o1, o2) ==
  PerformLogin(config, tokens, store, useFileBackend, l.email, l.password,
               SuppliedKey(l), IF l.op = "signup" THEN Pk(l.kp) ELSE NoBytes,
               l.resp, l.io, o1, o2).cfg.SelectedWorkspaceID
\* the case of C11: a successful PerformLogin that cached a workspace, none
\* selected before, no personal entry in the cache cached
FallbackCase(l, cached) ==
  /\ IdentityResolved(l) /\ ~l.err
  /\ ValidEntries(l) # {}
  /\ l.preSelected = ""
  /\ \A id \in DOMAIN cached : cached[id].Type # "personal"

\* C11 as stated: in the fallback case the selected workspace is a function
\* of the response and the prior state: under every iteration order of the
\* ranges over the cache, the same login from the same state selects the
\* workspace this login selected.
C11_DeterministicFallback ==
  [][FallbackCase(last', configFile'.Workspaces)
       => \A o1 \in Orders, o2 \in Orders :
            SelectedUnder(last', configFile, tokenFile, keyring, o1, o2)
              = configFile'.SelectedWorkspaceID]_vars

\* C12: when a workspace is selected before PerformLogin, the selected
\* workspace after it is the one selected before, whatever the response
\* lists and whether PerformLogin succeeds or fails.
C12_PreselectedKept ==
  PerformLoginRan(last) /\ last.preSelected # ""
    => configFile.SelectedWorkspaceID = last.preSelected

\* a successful login over a session with a workspace selected, whose
\* response brings a personal workspace other than the selected one
C12_Witness ==
  /\ PerformLoginRan(last) /\ ~last.err
  /\ last.preSelected # ""
  /\ configFile.SelectedWorkspaceID = last.preSelected
  /\ \E id \in DOMAIN configFile.Workspaces :
       /\ id # last.preSelected
       /\ configFile.Workspaces[id].Type = "personal"
       /\ \E i \in ValidEntries(last) : last.resp.Workspaces[i].ID = id

\* C13 as stated: when PerformLogin succeeds from a cleared session on a
\* response with distinct ids, the count of skipped workspaces that the
\* caller obtains is the number of response entries minus the number of
\* cached entries.
C13_SkippedSurfaced ==
  BootstrapCase(last) /\ ~last.err
    => Returned(last).skipped
         = Len(last.resp.Workspaces) - Cardinality(DOMAIN configFile.Workspaces)

\* the map and the pointer of the session cache are as before the step
CacheUnchanged ==
  /\ configFile'.Workspaces = configFile.Workspaces
  /\ configFile'.SelectedWorkspaceID = configFile.SelectedWorkspaceID

\* C14 as stated: a step of any operation other than login, signup and
\* logout leaves the workspace map and the selected workspace unchanged.
C14_AsStated ==
  [][last'.op \notin {"login", "signup", "logout"} => CacheUnchanged]_vars

\* C14 amended: invite, members, remove member and status leave the map and
\* the pointer unchanged; a create that succeeds adds the entry of the new
\* workspace with its fresh key, keeps every other entry and selects the
\* new workspace, and a create that fails changes nothing; a switch leaves
\* the map unchanged and either keeps the pointer or, on success, sets it
\* to an id of the map.
C14_CacheWriters ==
  [][/\ last'.op \in {"invite", "members", "remove", "status"} => CacheUnchanged
     /\ last'.op = "create" /\ last'.err => CacheUnchanged
     /\ last'.op = "create" /\ ~last'.err
          => /\ configFile'.Workspaces
                  = MapPut(configFile.Workspaces, last'.ws.workspaceID,
                           configFile'.Workspaces[last'.ws.workspaceID])
             /\ configFile'.Workspaces[last'.ws.workspaceID].Key = B64(Wk(last'.ws.k))
             /\ configFile'.SelectedWorkspaceID = last'.ws.workspaceID
     /\ last'.op = "switch"
          => /\ configFile'.Workspaces = configFile.Workspaces
             /\ \/ configFile'.SelectedWorkspaceID = configFile.SelectedWorkspaceID
                \/ /\ ~last'.err
                   /\ configFile'.SelectedWorkspaceID \in DOMAIN configFile.Workspaces]_vars

\* a switch that moved the pointer between the workspace of the login and
\* the workspace a create added
C14_Witness ==
  /\ last.op = "switch" /\ ~last.err
  /\ Cardinality(DOMAIN configFile.Workspaces) = 2
  /\ last.preSelected # ""
  /\ configFile.SelectedWorkspaceID # last.preSelected
  /\ configFile.SelectedWorkspaceID \in DOMAIN configFile.Workspaces

\* the byte strings config.json holds: the keys of the workspace cache
ConfigTerms(cfg) == Carried({cfg.Workspaces[id].Key : id \in DOMAIN cfg.Workspaces})

\* C15: no request of a signup, login, logout, create or invite carries an
\* identity private key; the only field that carries a form of it is the
\* encrypted_private_key of a signup, which is the ciphertext that
\* EncryptPrivateKey produced for the generated key under the password; and
\* config.json holds no identity private key (token.json holds the three
\* token strings only).
C15_PrivateKeyNotSent ==
  /\ \A i \in 1..Len(last.requests) :
       LET body == last.requests[i].body
       IN  /\ \A t \in BodyTerms(body) : t.t # "sk"
           /\ body.encrypted_private_key.enc # "empty"
                => /\ last.op = "signup"
                   /\ body.encrypted_private_key
                        = EncryptPrivateKey(Sk(last.kp), last.password,
                                            body.key_salt).ciphertextB64
  /\ \A t \in ConfigTerms(configFile) : t.t # "sk"
  /\ tokenFile \in [{"AccessToken", "RefreshToken", "ExpiresAt"} ->
                      {"", "access-top", "refresh-top", "expires-top",
                       "access-data", "refresh-data", "expires-data"}]

\* a signup that sent the ciphertext and left the private key in the key
\* store, next to a config.json with a cached workspace key
C15_Witness ==
  /\ last.op = "signup" /\ ~last.err
  /\ last.requests[1].body.encrypted_private_key.raw.t = "epk"
  /\ keyring[last.email].Private = B64(Sk(last.kp))
  /\ ConfigTerms(configFile) # {}

\* the byte strings the key store holds
KeyringTerms(store) ==
  Carried({store[e].Private : e \in Emails} \cup {store[e].Public : e \in Emails})

\* C16: no request carries a plaintext workspace key; a request carries
\* workspace-key material only in the encrypted_workspace_key of a create
\* or an invite, and that is a blob sealed by EncryptForUser; the key store
\* holds no workspace key, so the plaintext lives in the session cache only.
C16_WorkspaceKeySealed ==
  /\ \A i \in 1..Len(last.requests) :
       LET body == last.requests[i].body
       IN  /\ \A t \in BodyTerms(body) : t.t # "wk"
           /\ body.encrypted_workspace_key.enc # "empty"
                => /\ last.op \in {"create", "invite"}
                   /\ \E pk \in KeyIds, k \in WsKeyIds :
                        body.encrypted_workspace_key
                          = B64(EncryptForUser(Pk(pk), Wk(k)).val)
  /\ \A t \in KeyringTerms(keyring) : t.t # "wk"

\* an invite that sent a sealed blob while config.json holds the plaintext
\* key of the workspace
C16_Witness ==
  /\ last.op = "invite" /\ ~last.err
  /\ Len(last.requests) = 2
  /\ last.requests[2].body.encrypted_workspace_key.raw.t = "box"
  /\ GetWorkspaceKey(configFile, last.ws.workspaceID).ok
  /\ GetWorkspaceKey(configFile, last.ws.workspaceID).val.t = "wk"

\* the invite of this step sent its second request, the one with the blob
InviteSent(l) == l.op = "invite" /\ Len(l.requests) = 2

\* C17: an Invite leaves config.json, and with it the cached entry of the
\* workspace, as it was; the blob it sends is the key that was cached for
\* the workspace before the call, sealed to the public key returned for the
\* invitee: it opens under the invitee's keypair to exactly that key. The
\* key of a workspace a Create added is the one key that Create generated.
C17_InviteRewraps ==
  [][/\ last'.op = "invite" => configFile' = configFile
     /\ InviteSent(last')
          => LET blob == B64Decode(last'.requests[2].body.encrypted_workspace_key)
                 pub == B64Decode(last'.ws.PublicKey).val
                 cached == GetWorkspaceKey(configFile, last'.ws.workspaceID)
             IN  /\ cached.ok /\ blob.ok
                 /\ DecryptFromUser(Sk(pub.a), pub, blob.val) = Ok(cached.val)
     /\ last'.op = "create" /\ ~last'.err
          => GetWorkspaceKey(configFile', last'.ws.workspaceID) = Ok(Wk(last'.ws.k))]_vars

\* an accepted invite to the workspace that a create of this session added
C17_Witness ==
  /\ InviteSent(last) /\ ~last.err
  /\ last.ws.workspaceID \in DOMAIN configFile.Workspaces
  /\ configFile.Workspaces[last.ws.workspaceID].Name = "gamma"
  /\ last.requests[2].body.encrypted_workspace_key
       = B64(Box(NumKeypairs, configFile.Workspaces[last.ws.workspaceID].Key.raw.a))

\* C18: after a successful Signup the key store holds, for the email, the
\* generated keypair: the pair whose public key the signup request carried
\* and whose private key the encrypted_private_key of that request decrypts
\* to under the password and the salt sent with it. The auto-login of a
\* created account does not decrypt: when the login call succeeds and no
\* checked write fails it succeeds whatever identity fields the response
\* has, also none.
C18_SignupKeypair ==
  last.op = "signup"
    => /\ ~last.err
            => LET body == last.requests[1].body
               IN  /\ keyring[last.email]
                        = [Private |-> B64(Sk(last.kp)), Public |-> B64(Pk(last.kp))]
                   /\ body.public_key = keyring[last.email].Public
                   /\ DecryptPrivateKey(body.encrypted_private_key, last.password,
                                        body.key_salt) = Ok(Sk(last.kp))
       /\ PerformLoginRan(last) /\ Authenticates(last) /\ NoWriteFailed(last)
            => ~last.err /\ last.unwraps = UnwrapAttempts(last.resp.Workspaces)

\* a signup that succeeded on a login response without identity fields
C18_Witness ==
  /\ last.op = "signup" /\ ~last.err
  /\ last.resp.EncryptedPrivateKey.enc = "empty" /\ last.resp.KeySalt = ""
  /\ GetPrivateKey(keyring, last.email) = Ok(Sk(last.kp))
  /\ last.kp = NumKeypairs
  /\ DOMAIN configFile.Workspaces # {}

\* the emails that session storage and the key store hold
StoredEmails ==
  {configFile.Email} \cup {e \in Emails : keyring[e] # NoKeyEntry}
\* no stored byte string is the password or is made from it
PasswordNotStored ==
  \A t \in ConfigTerms(configFile) \cup KeyringTerms(keyring) :
    t.t \notin {"pw", "epk"}

\* C19 as stated: after a signup or a login neither the email nor the
\* password supplied is in config.json, token.json or the key store.
C19_AsStated ==
  last.op \in {"login", "signup"}
    => last.email \notin StoredEmails /\ PasswordNotStored

\* C19 amended: the password is never stored, in plaintext or in a form
\* made from it; the email is stored: once PerformLogin has resolved the
\* identity keypair and SetEmail has written, config.json holds the email
\* supplied, and after a successful PerformLogin the key store holds the
\* keypair under that email.
C19_PasswordTransient ==
  /\ PasswordNotStored
  /\ IdentityResolved(last) /\ last.io.setEmail => configFile.Email = last.email
  /\ IdentityResolved(last) /\ ~last.err => keyring[last.email] # NoKeyEntry

\* a successful login of the second account over a session of the first
C19_Witness ==
  /\ last.op = "login" /\ ~last.err
  /\ last.email = "b@x"
  /\ ~last.preCleared
  /\ StoredEmails = {"a@x", "b@x"}
  /\ PasswordNotStored

\* the contents config.json takes during the PerformLogin of the operation
\* l run from the state config, preceded by config itself
WritesOf(l, config, o1, o2) ==
  <<config>> \o ConfigWrites(config, l.email, IdentityOf(l).priv, IdentityOf(l).pub,
                              l.resp, l.io, o1, o2)

\* C20: during a PerformLogin that has resolved the identity keypair, every
\* content that config.json takes holds either the cache of before the call
\* or the complete cache this login resolved; the cache changes in at most
\* one of the writes; and the last content is the one the call leaves.
C20_SingleCacheWrite ==
  [][IdentityResolved(last')
       => \E expected \in {ExpectedCache(last')} :
          \E traces \in {{WritesOf(last', configFile, o1, o2) :
                            o1 \in RangeOrders(last'.resp),
                            o2 \in RangeOrders(last'.resp)}} :
            /\ \A w \in traces :
                 /\ \A i \in 1..Len(w) :
                      w[i].Workspaces \in {configFile.Workspaces, expected}
                 /\ Cardinality({i \in 2..Len(w) :
                                   w[i].Workspaces # w[i - 1].Workspaces}) <= 1
            /\ \E w \in traces : configFile' = w[Len(w)]]_vars

\* a login that replaced a cache of one workspace by a cache of two
C20_Witness ==
  /\ IdentityResolved(last) /\ ~last.err
  /\ ~last.preCleared /\ last.preSelected # ""
  /\ Cardinality(ValidEntries(last)) = 2
  /\ configFile.Workspaces = ExpectedCache(last)
  /\ Cardinality(DOMAIN configFile.Workspaces) = 2

\* the content of the file named file
FileOf(files, file) == IF file = "config.json" THEN files.cfg ELSE files.kr
\* the invocation whose save of the file named file came last
LastSavers(file) ==
  {q \in HasSaved :
     /\ inflight[q].op.file = file
     /\ \A p \in HasSaved : inflight[p].op.file = file => inflight[p].turn <= inflight[q].turn}
\* the invocation p saved its update of a file and a later save of q, which
\* had loaded the file before, wrote the file without it
Lost(p, q) ==
  /\ p \in HasSaved /\ q \in HasSaved
  /\ inflight[p].op.file = inflight[q].op.file
  /\ inflight[p].turn < inflight[q].turn
  /\ p \notin inflight[q].after
  /\ FileOf(Files(configFile, keyring), inflight[p].op.file)
       # FileOf(Modify(inflight[p].op, Files(configFile, keyring)), inflight[p].op.file)

\* C21: the writers take no lock: after the saves a file holds what the
\* last invocation to save it had loaded, with the change of that
\* invocation alone, so that the update of an invocation that saved
\* between that load and that save is gone from the file.
C21_LastSaveWins ==
  \A file \in {"config.json", "keyring.json"} :
    \A q \in LastSavers(file) :
      FileOf(Files(configFile, keyring), file)
        = FileOf(Modify(inflight[q].op, inflight[q].loaded), file)

\* two invocations stored the keypairs of different emails in keyring.json
\* and the file holds only one of them
C21_Witness ==
  \E p \in Invocations, q \in Invocations :
    /\ Lost(p, q)
    /\ inflight[p].op.kind = "fileSet" /\ inflight[q].op.kind = "fileSet"
    /\ inflight[p].op.email # inflight[q].op.email
    /\ keyring[inflight[p].op.email] = NoKeyEntry
    /\ keyring[inflight[q].op.email] # NoKeyEntry

\* The arguments of the call are the ones the encryption returned or was
\* given.
AsSealed(fn) == trial.fn = fn /\ trial.args = trial.sealed

\* C22: identity round trip: for every 32-byte private key K and password
\* P, DecryptPrivateKey of the ciphertext and the salt EncryptPrivateKey
\* returned for (K, P), with P, returns K.
C22_IdentityRoundTrip ==
  AsSealed("DecryptPrivateKey") => trial.out = Ok(trial.plain)
C22_Witness ==
  AsSealed("DecryptPrivateKey") /\ trial.out.ok /\ trial.plain = Sk(NumKeypairs)

\* C23: DecryptPrivateKey of an encrypted key and its salt with another
\* password than the one it was encrypted with returns an error and no key
\* bytes.
C23_WrongPasswordRejected ==
  (/\ trial.fn = "DecryptPrivateKey"
   /\ trial.args.password # trial.sealed.password
   /\ trial.args = [trial.sealed EXCEPT !.password = trial.args.password])
  => ~trial.out.ok /\ ~trial.out.panic /\ trial.out.val = NoBytes
C23_Witness ==
  /\ trial.fn = "DecryptPrivateKey"
  /\ trial.args.password # trial.sealed.password
  /\ trial.args = [trial.sealed EXCEPT !.password = trial.args.password]
  /\ trial.out = Failed("failed to decrypt private key (wrong password?)")

\* C24: sealed-box round trip: for every keypair (sk, pk) and 32-byte
\* workspace key K, DecryptFromUser(sk, pk, EncryptForUser(pk, K)) returns K.
C24_SealedBoxRoundTrip ==
  AsSealed("DecryptFromUser") => trial.out = Ok(trial.plain)
C24_Witness ==
  AsSealed("DecryptFromUser") /\ trial.out.ok /\ trial.plain = Wk(NumWsKeys)

C25_WitnessEmpty ==
  AsSealed("DecryptSecret") /\ trial.out.ok /\ trial.plain.n = 0

\* One bit of the ciphertext, of the nonce or of the sealed blob differs
\* from what the encryption returned; every other argument is as sealed.
BitChanged ==
  \/ /\ trial.fn \in {"DecryptPrivateKey", "DecryptSecret"}
     /\ trial.args = [trial.sealed EXCEPT
                        !.ciphertext = B64(FlipBit(trial.sealed.ciphertext.raw))]
  \/ /\ trial.fn = "DecryptSecret"
     /\ trial.args = [trial.sealed EXCEPT !.nonce = B64(FlipBit(trial.sealed.nonce.raw))]
  \/ /\ trial.fn = "DecryptFromUser"
     /\ trial.args = [trial.sealed EXCEPT !.encrypted = FlipBit(trial.sealed.encrypted)]
\* A secret is decrypted with another workspace key than it was sealed with.
OtherWorkspaceKey ==
  /\ trial.fn = "DecryptSecret"
  /\ trial.args.workspaceKey \in {Wk(k) : k \in WsKeyIds} \ {trial.sealed.workspaceKey}
  /\ trial.args = [trial.sealed EXCEPT !.workspaceKey = trial.args.workspaceKey]

TagFailure(fn) ==
  IF fn = "DecryptPrivateKey"
  THEN DecryptPrivateKey(B64(FlipBit(Epk(1, 1, "s1"))), 1, "s1")
  ELSE IF fn = "DecryptSecret"
       THEN DecryptSecret(B64(FlipBit(SecretCt(1, Str(2, 5), "n1"))), B64(Nonce("n1")), Wk(1))
  ELSE DecryptFromUser(Sk(1), Pk(1), FlipBit(Box(1, 1)))
\* The ciphertext given is not base64 or decodes to fewer bytes than a
\* nonce; the other arguments are as sealed.
Malformed ==
  /\ trial.fn \in {"DecryptPrivateKey", "DecryptSecret"}
  /\ trial.args = [trial.sealed EXCEPT !.ciphertext = trial.args.ciphertext]
  /\ \/ ~B64Decode(trial.args.ciphertext).ok
     \/ B64Decode(trial.args.ciphertext).val.n < NonceSize

\* C27: a decrypt function returns the same error for malformed input
\* (undecodable base64, ciphertext shorter than the nonce) as for a tag
\* that does not verify.
C27_Indistinguishable ==
  Malformed => trial.out = TagFailure(trial.fn)

\* C28: DecryptSecret returns the plaintext or an error for every
\* ciphertext, nonce and workspace key, a nonce that decodes to another
\* length than 12 bytes and a key of the wrong length included; it never
\* aborts the program.
C28_NeverAborts ==
  trial.fn = "DecryptSecret" => ~trial.out.panic
\* a key of the wrong length is reported as an error
C28_WrongKeyLengthIsError ==
  (trial.fn = "DecryptSecret" /\ trial.args.workspaceKey.n \notin AESKeySizes
     /\ trial.args = [trial.sealed EXCEPT !.workspaceKey = trial.args.workspaceKey])
  => trial.out = Failed("failed to create cipher")

\* The header a request must carry when the token file holds token as the
\* request goes out.
ExpectedHeader(endpoint, token) ==
  IF endpoint \in {"auth.signup", "auth.login", "auth.refresh"} THEN ""
  ELSE IF token # "" THEN "Bearer " \o token
  ELSE ""

\* C29: every request of an operation carries no Authorization header on
\* auth.signup, auth.login and auth.refresh, and on every other endpoint
\* carries "Bearer <token>" exactly when token.json holds a non-empty
\* access token as the request goes out. No operation writes token.json
\* before its last request, so that token is the one the step starts with.
C29_AuthorizationHeader ==
  [][\A i \in DOMAIN last'.requests :
       last'.requests[i].Authorization
         = ExpectedHeader(last'.requests[i].endpoint, tokenFile.AccessToken)]_vars
C29_Witness ==
  /\ last.op = "invite"
  /\ \E i \in DOMAIN last.requests :
       /\ last.requests[i].endpoint = "workspaces.invite"
       /\ last.requests[i].Authorization = "Bearer " \o tokenFile.AccessToken
       /\ tokenFile.AccessToken # ""
\* a request after a logout goes out without the header
C29_WitnessLoggedOut ==
  /\ tokenFile.AccessToken = ""
  /\ \E i \in DOMAIN last.requests :
       /\ last.requests[i].endpoint \notin {"auth.signup", "auth.login", "auth.refresh"}
       /\ last.requests[i].Authorization = ""

\* C30: when config.json exists and the user confirms (or passes --force),
\* config.json and token.json hold the empty defaults after the
\* initialisation step, whatever they held before.
C30_ReinitResets ==
  (last.op = "reinit" /\ ~last.err)
  => configFile = EmptyGlobalConfig /\ tokenFile = EmptyTokenConfig
\* an init that finds no config.json leaves the defaults
C30_FreshInitDefaults ==
  (last.op = "init" /\ ~last.err) => configFile = EmptyGlobalConfig

C31_OtherInputsOtherKey ==
  (trial.fn = "DeriveKeyFromPassword" /\ trial.args # trial.sealed)
  => trial.out # Ok(trial.plain)

\* The stored keypair of the stored email opens the blob to the key.
OpensTo(kr, email, blobB64, keyB64) ==
  /\ GetPrivateKey(kr, email).ok /\ GetPublicKey(kr, email).ok /\ B64Decode(blobB64).ok
  /\ DecryptFromUser(GetPrivateKey(kr, email).val, GetPublicKey(kr, email).val,
                     B64Decode(blobB64).val) = B64Decode(keyB64)
\* The cache after a Create: the entry of the returned id holds the
\* generated key, the pointer is the returned id, the rest is as before.
CreatedEntry ==
  /\ last'.ws.workspaceID \in DOMAIN configFile'.Workspaces
  /\ configFile'.Workspaces[last'.ws.workspaceID].Key = B64(Wk(last'.ws.k))
  /\ configFile'.SelectedWorkspaceID = last'.ws.workspaceID
  /\ configFile'.Email = configFile.Email
  /\ \A id \in DOMAIN configFile.Workspaces \ {last'.ws.workspaceID} :
       id \in DOMAIN configFile'.Workspaces
       /\ configFile'.Workspaces[id] = configFile.Workspaces[id]
  /\ DOMAIN configFile'.Workspaces \subseteq DOMAIN configFile.Workspaces \cup {last'.ws.workspaceID}

\* C32: after a successful Create the cache holds, under the returned id,
\* the generated key, which is the key the sent sealed blob opens to under
\* the creator's stored keypair; the pointer is that id; every other cache
\* entry and the stored email are unchanged.
C32_CreateCachesSealedKey ==
  [][(last'.op = "create" /\ ~last'.err)
     => /\ CreatedEntry
        /\ OpensTo(keyring', configFile'.Email,
                   last'.requests[1].body.encrypted_workspace_key,
                   configFile'.Workspaces[last'.ws.workspaceID].Key)]_vars
\* the cache part alone
C32_CreateCaches ==
  [][(last'.op = "create" /\ ~last'.err) => CreatedEntry]_vars

\* The signup request of the step failed in transport or was answered with
\* another status than 201.
SignupRefused(l) ==
  l.op = "signup" /\ (l.transport.err \/ l.transport.status # StatusCreated)

\* C33: when the signup request fails in transport or returns a status
\* other than 201, Signup returns an error, sends no login request and
\* leaves the email, the tokens, the key store, the workspace cache and the
\* selected-workspace pointer as they were.
C33_SignupFailurePersistsNothing ==
  [][SignupRefused(last')
     => /\ last'.err
        /\ Len(last'.requests) = 1 /\ last'.requests[1].endpoint = "auth.signup"
        /\ configFile' = configFile /\ tokenFile' = tokenFile /\ keyring' = keyring]_vars
C33_Witness ==
  /\ SignupRefused(last) /\ last.transport.err /\ last.err
  /\ configFile.Email # "" /\ configFile.Email # last.email
  /\ tokenFile.AccessToken # ""
C33_WitnessStatus ==
  /\ SignupRefused(last) /\ ~last.transport.err /\ last.err /\ configFile.Email # ""

\* C34: after any sequence of signup, login, logout, workspace create and
\* workspace switch, the selected-workspace pointer is empty or the id of
\* an entry of the workspace cache.
C34_PointerInCache ==
  configFile.SelectedWorkspaceID = ""
  \/ configFile.SelectedWorkspaceID \in DOMAIN configFile.Workspaces

\* The key store holds a private and a public key for the email.
HoldsKeypair(kr, email) ==
  email \in DOMAIN kr /\ GetPrivateKey(kr, email).ok /\ GetPublicKey(kr, email).ok

\* C35: in every state reachable by signup, login and logout, failed
\* logins included, IsAuthenticated() implies that the key store holds the
\* identity keypair of the stored email.
C35_AuthenticatedHasKeypair ==
  IsAuthenticated(configFile, tokenFile) => HoldsKeypair(keyring, configFile.Email)

\* C36: whenever PerformLogin returns success, IsAuthenticated() is true
\* afterwards, the stored email is the login email and the stored access
\* token is the non-empty token of the response: the top-level
\* access_token if non-empty, otherwise data.access.
C36_SuccessAuthenticates ==
  (last.op \in {"login", "signup"} /\ ~last.err)
  => /\ IsAuthenticated(configFile, tokenFile)
     /\ configFile.Email = last.email
     /\ tokenFile.AccessToken = coalesce(last.resp.AccessToken, last.resp.Access)
\* the email and the choice of the token alone
C36_StoresCoalescedToken ==
  (last.op \in {"login", "signup"} /\ ~last.err)
  => /\ configFile.Email = last.email
     /\ tokenFile.AccessToken = coalesce(last.resp.AccessToken, last.resp.Access)

\* The public key is the one that box.GenerateKey made with the private
\* key.
Corresponds(privateKey, publicKey) ==
  /\ privateKey.t = "sk" /\ publicKey.t = "pk"
  /\ privateKey.n = KeySize /\ publicKey.n = KeySize
  /\ privateKey.a = publicKey.a

\* C37: after every successful PerformLogin the public key in the key
\* store is the public key of the private key in the key store.
C37_StoredKeypairCorresponds ==
  (last.op \in {"login", "signup"} /\ ~last.err)
  => /\ HoldsKeypair(keyring, last.email)
     /\ Corresponds(GetPrivateKey(keyring, last.email).val,
                    GetPublicKey(keyring, last.email).val)
\* the keypair a signup stores is the one it generated
C37_SignupKeypairCorresponds ==
  (last.op = "signup" /\ ~last.err)
  => /\ HoldsKeypair(keyring, last.email)
     /\ Corresponds(GetPrivateKey(keyring, last.email).val,
                    GetPublicKey(keyring, last.email).val)

C39_CreateFailureKeepsCache ==
  [][(last'.op = "create" /\ last'.err)
     => /\ configFile'.Workspaces = configFile.Workspaces
        /\ configFile'.SelectedWorkspaceID = configFile.SelectedWorkspaceID
        /\ (configFile.Email = "" => last'.requests = <<>>)]_vars
\* a failed Create is one of the four cases, or a response that does not
\* parse, or a failed save
C39_FailureCases ==
  (last.op = "create" /\ last.err)
  => \/ last.failedAt \in {"NotLoggedIn", "GetPublicKey", "EncryptForUser", "SaveGlobalConfig"}
     \/ last.failedAt = "Call" /\ (last.transport.err \/ last.transport.status # StatusCreated)
C39_Witness ==
  /\ last.op = "create" /\ last.err /\ last.failedAt = "Call"
  /\ last.transport.status # StatusCreated
  /\ configFile.SelectedWorkspaceID # "" /\ DOMAIN configFile.Workspaces # {}
C39_WitnessNoEmail ==
  last.op = "create" /\ last.err /\ last.failedAt = "NotLoggedIn" /\ last.requests = <<>>
C39_WitnessNoPublicKey ==
  last.op = "create" /\ last.err /\ last.failedAt = "GetPublicKey"
C39_WitnessTransport ==
  last.op = "create" /\ last.err /\ last.transport.err /\ configFile.SelectedWorkspaceID # ""
====
